---- MODULE Spec2Model ----
(***************************************************************************)
(* Verification model of the dithering studio (keegan-a/ChatGPT).         *)
(*                                                                         *)
(* Numbers.  The engines compute in float32.  The model computes in fixed  *)
(* point: one unit is 1/(255*FracUnits) of full scale, so an 8-bit sample  *)
(* v is the integer v*FracUnits both for the standalone engine (which      *)
(* works in [0,1]) and for the studio engine (which works in [0,255]).     *)
(* Products with a kernel weight num/den are rounded to the nearest unit.  *)
(*                                                                         *)
(* Buffers.  numpy arrays are objects: the model keeps them in a heap      *)
(* (a sequence of arrays) and the program's names hold references, so      *)
(* that copying and aliasing are different things.                         *)
(***************************************************************************)
EXTENDS Integers, Sequences, FiniteSets, TLC

\* ------------------------------------------------------------------ bounds
MaxH == 3
MaxW == 3
FracUnits == 32
NumImages == 4
MaxColors == 6
MaxGradW == 16
MaxGradH == 16
MaxHexLen == 7
MidGreySide == 4
MaxLoads == 2
MaxEnqueues == 3
\* sides of the sources of the size renders, and their downsample factors
\* and pixel-block sizes
MaxSide == 4
\* tasks the standalone window starts
MaxTasks == 4
MaxFactor == 3

\* ------------------------------------------------------------- program constants
\* RGB work buffers: work_rgb = adjusted[:, :, :3]
Channels == 3

Full == 255 * FracUnits

\* ------------------------------------------------------------------ numerics
\* nearest-unit rounding of a/b, b > 0 (float multiply modelled in fixed point)
RoundDiv(a, b) == (2 * a + b) \div (2 * b)

Min2(a, b) == IF a < b THEN a ELSE b
Max2(a, b) == IF a > b THEN a ELSE b
\* np.clip(v, lo, hi)
Clip(v, lo, hi) == Max2(lo, Min2(v, hi))

\* element-wise vector arithmetic on pixels (tuples of channel values)
VSub(p, q) == [c \in DOMAIN p |-> p[c] - q[c]]
VAdd(p, q) == [c \in DOMAIN p |-> p[c] + q[c]]
VClip(p, lo, hi) == [c \in DOMAIN p |-> Clip(p[c], lo, hi)]
RECURSIVE GCD(_, _)
GCD(a, b) == IF b = 0 THEN a ELSE GCD(b, a % b)
\* error * weight, weight = num/den (in lowest terms, to keep products small)
VShare(e, num, den) ==
    LET g == GCD(num, den)
    IN [c \in DOMAIN e |-> RoundDiv(e[c] * (num \div g), den \div g)]

\* ------------------------------------------------------------------ arrays
Pos(h, w) == (0 .. h - 1) \X (0 .. w - 1)
InBounds(nx, ny, w, h) == 0 <= nx /\ nx < w /\ 0 <= ny /\ ny < h
MkArray(h, w, c, px) == [h |-> h, w |-> w, c |-> c, px |-> px]
\* np.zeros_like(a)
ZerosOf(a) == MkArray(a.h, a.w, a.c, [p \in Pos(a.h, a.w) |-> [c \in 1 .. a.c |-> 0]])
\* a.shape
Shape(a) == <<a.h, a.w, a.c>>

\* no copy: the same object under a second name
ArrayAlias(hp, r) == [heap |-> hp, ref |-> r]
\* a.copy() on the heap: a fresh object holding the same values
ArrayCopy(hp, r) == [heap |-> Append(hp, hp[r]), ref |-> Len(hp) + 1]
\* np.zeros_like(a) on the heap
ZerosLike(hp, r) == [heap |-> Append(hp, ZerosOf(hp[r])), ref |-> Len(hp) + 1]

\* ------------------------------------------------------------------ kernels
\* ERROR_DIFFUSION_KERNELS of the standalone tool; entries <<dx, dy, num, den>>
K(dx, dy, num, den) == [dx |-> dx, dy |-> dy, num |-> num, den |-> den]

FloydSteinbergNone == <<>>
FloydSteinberg == <<K(1, 0, 7, 16), K(-1, 1, 3, 16), K(0, 1, 5, 16), K(1, 1, 1, 16)>>

JarvisJudiceNinke ==
    << K(1, 0, 7, 48), K(2, 0, 5, 48),
       K(-2, 1, 3, 48), K(-1, 1, 5, 48), K(0, 1, 7, 48), K(1, 1, 5, 48), K(2, 1, 3, 48),
       K(-2, 2, 1, 48), K(-1, 2, 3, 48), K(0, 2, 5, 48), K(1, 2, 3, 48), K(2, 2, 1, 48) >>

Stucki ==
    << K(1, 0, 8, 42), K(2, 0, 4, 42),
       K(-2, 1, 2, 42), K(-1, 1, 4, 42), K(0, 1, 8, 42), K(1, 1, 4, 42), K(2, 1, 2, 42),
       K(-2, 2, 1, 42), K(-1, 2, 2, 42), K(0, 2, 4, 42), K(1, 2, 2, 42), K(2, 2, 1, 42) >>

Atkinson ==
    << K(1, 0, 1, 8), K(2, 0, 1, 8),
       K(-1, 1, 1, 8), K(0, 1, 1, 8), K(1, 1, 1, 8),
       K(0, 2, 1, 8) >>

Burkes ==
    << K(1, 0, 8, 32), K(2, 0, 4, 32),
       K(-2, 1, 2, 32), K(-1, 1, 4, 32), K(0, 1, 8, 32), K(1, 1, 4, 32), K(2, 1, 2, 32) >>

Sierra2Row ==
    << K(1, 0, 5, 32), K(2, 0, 3, 32),
       K(-2, 1, 2, 32), K(-1, 1, 4, 32), K(0, 1, 5, 32), K(1, 1, 4, 32), K(2, 1, 2, 32) >>

SierraLite == <<K(1, 0, 2, 4), K(-1, 1, 1, 4), K(0, 1, 1, 4)>>

\* the sierra kernel of app.core.dithering
sierra ==
    << K(1, 0, 5, 32), K(2, 0, 3, 32),
       K(-2, 1, 2, 32), K(-1, 1, 4, 32), K(0, 1, 5, 32), K(1, 1, 4, 32), K(2, 1, 2, 32),
       K(-1, 2, 2, 32), K(0, 2, 3, 32), K(1, 2, 2, 32) >>

ToolKernelNames ==
    { "Floyd-Steinberg", "Jarvis-Judice-Ninke", "Stucki", "Atkinson", "Burkes",
      "Sierra (2-row)", "Sierra Lite (2-4A)" }

ERROR_DIFFUSION_KERNELS(name) ==
    CASE name = "Floyd-Steinberg" -> FloydSteinberg
      [] name = "Jarvis-Judice-Ninke" -> JarvisJudiceNinke
      [] name = "Stucki" -> Stucki
      [] name = "Atkinson" -> Atkinson
      [] name = "Burkes" -> Burkes
      [] name = "Sierra (2-row)" -> Sierra2Row
      [] name = "Sierra Lite (2-4A)" -> SierraLite

CoreKernelNames == { "Floyd-Steinberg", "Jarvis-Judice-Ninke", "Sierra" }

\* the diffusion_matrix literals of floyd_steinberg, jarvis_judice_ninke, sierra
CoreDiffusionMatrix(name) ==
    CASE name = "Floyd-Steinberg" -> FloydSteinberg
      [] name = "Jarvis-Judice-Ninke" -> JarvisJudiceNinke
      [] name = "Sierra" -> sierra

\* ------------------------------------------------------------ nearest colour
\* diff = palette - pixel; dist = np.sum(diff * diff, axis=1)
SumSq(v) == LET RECURSIVE S(_)
                S(c) == IF c = 0 THEN 0 ELSE v[c] * v[c] + S(c - 1)
            IN S(Len(v))
Distances(pixel, palette) == [i \in 1 .. Len(palette) |-> SumSq(VSub(palette[i], pixel))]

\* np.argmin: scans left to right and keeps the first minimum (1-based here)
RECURSIVE ArgminScan(_, _, _)
ArgminScan(dist, i, best) ==
    IF i > Len(dist) THEN best
    ELSE ArgminScan(dist, i + 1, IF dist[i] < dist[best] THEN i ELSE best)

\* a scan that keeps the last minimum instead
RECURSIVE ArgminLastScan(_, _, _)
ArgminLastScan(dist, i, best) ==
    IF i > Len(dist) THEN best
    ELSE ArgminLastScan(dist, i + 1, IF dist[i] <= dist[best] THEN i ELSE best)
NpArgminLast(dist) == ArgminLastScan(dist, 2, 1)
NpArgmin(dist) == ArgminScan(dist, 2, 1)

argmin_distance(pixel, palette) == NpArgmin(Distances(pixel, palette))

\* ------------------------------------------------------------ scan order
\* x_range and direction of row y (lines 465-470); the gray variant is the same
\* a scan that ignores the serpentine setting
NeverReversed(y, serp) == FALSE
Reversed(y, serp) == serp /\ y % 2 = 1
\* offsets never mirrored
DirectionStraight(y, serp) == 1
Direction(y, serp) == IF Reversed(y, serp) THEN -1 ELSE 1
\* every row left to right
XAtForward(y, k, w, serp) == k
\* the k-th x of x_range, k = 0 .. w-1
XAt(y, k, w, serp) == IF Reversed(y, serp) THEN w - 1 - k ELSE k

\* ------------------------------------------------------------ diffusion
\* for dx, dy, weight in kernel: if in bounds: work[ny, nx] += error * weight
RECURSIVE DiffuseFrom(_, _, _, _, _, _, _, _, _)
DiffuseFrom(px, error, kernel, i, x, y, dir, w, h) ==
    IF i > Len(kernel) THEN px
    ELSE LET e  == kernel[i]
             nx == x + e.dx * dir
             ny == y + e.dy
             nxt == IF InBounds(nx, ny, w, h)
                    THEN [px EXCEPT ![<<ny, nx>>] = VAdd(@, VShare(error, e.num, e.den))]
                    ELSE px
         IN DiffuseFrom(nxt, error, kernel, i + 1, x, y, dir, w, h)

\* a diffusion that keeps out-of-range shares by landing them on the border pixel
RECURSIVE DiffuseClampedFrom(_, _, _, _, _, _, _, _, _)
DiffuseClampedFrom(px, error, kernel, i, x, y, dir, w, h) ==
    IF i > Len(kernel) THEN px
    ELSE LET e  == kernel[i]
             nx == Clip(x + e.dx * dir, 0, w - 1)
             ny == Clip(y + e.dy, 0, h - 1)
             nxt == [px EXCEPT ![<<ny, nx>>] = VAdd(@, VShare(error, e.num, e.den))]
         IN DiffuseClampedFrom(nxt, error, kernel, i + 1, x, y, dir, w, h)
DiffuseClamped(px, error, kernel, x, y, dir, w, h) ==
    DiffuseClampedFrom(px, error, kernel, 1, x, y, dir, w, h)

Diffuse(px, error, kernel, x, y, dir, w, h) ==
    DiffuseFrom(px, error, kernel, 1, x, y, dir, w, h)

\* ------------------------------------------------------------ inputs
\* 8-bit sample v as a buffer value
U8(v) == v * FracUnits
Grey(v) == <<U8(v), U8(v), U8(v)>>

\* the caller's images: a constant mid-grey, a horizontal gradient
\* (np.linspace(0, 1, w) * 255 as uint8), a tinted vertical gradient, and
\* arbitrary 8-bit content for the remaining kinds
Ramp(i, n) == IF n > 1 THEN (255 * i) \div (n - 1) ELSE 0
Sample(kind, y, x, h, w) ==
    CASE kind = 1 -> Grey(128)
      [] kind = 2 -> Grey(Ramp(x, w))
      [] kind = 3 -> <<U8(Ramp(y, h)), U8(255 - Ramp(y, h)), U8(64)>>
      [] OTHER    -> << U8((37 * kind + 61 * x + 29 * y + 11) % 256),
                        U8((91 * kind + 17 * x + 53 * y + 5) % 256),
                        U8((13 * kind + 71 * x + 43 * y + 7) % 256) >>
ImageOf(kind, h, w) == MkArray(h, w, Channels, [p \in Pos(h, w) |-> Sample(kind, p[1], p[2], h, w)])
\* a single-channel (alpha) plane of the same content
AlphaOf(kind, h, w) == MkArray(h, w, 1, [p \in Pos(h, w) |-> <<Sample(kind, p[1], p[2], h, w)[1]>>])

Dims == (1 .. MaxH) \X (1 .. MaxW)
Images == { ImageOf(kind, d[1], d[2]) : kind \in 1 .. NumImages, d \in Dims }
AlphaPlanes == { AlphaOf(kind, d[1], d[2]) : kind \in 1 .. NumImages, d \in Dims }

\* palettes handed to the engine: black/white, a palette with a duplicated
\* entry and an equidistant pair, and a colour palette
BlackWhite == <<Grey(0), Grey(255)>>
EnginePalettes ==
    { BlackWhite,
      <<Grey(64), Grey(192), Grey(64), Grey(192)>>,
      <<Grey(255), Grey(1), <<U8(15), U8(56), U8(15)>>, <<U8(155), U8(188), U8(15)>>>> }

\* ------------------------------------------------------------ state
VARIABLES
    engine,      \* the routine that runs: "ed", "gray", "ordered", "random", "core", ...
    algorithm,   \* settings.algorithm / request.algorithm
    serpentine,  \* settings.serpentine
    palette,     \* the palette argument (a sequence of colours)
    params,      \* request.threshold and request.amplitude (in hundredths)
    kernel,      \* the kernel / threshold matrix the routine resolved
    heap,        \* the arrays alive, by reference; heap[1] is the caller's image
    workRef,     \* work / buffer / noisy
    outRef,      \* output
    resultRef,   \* the returned array, 0 before the return
    pc,          \* "start", "loop", "done"
    y,           \* current row
    k,           \* position in x_range
    visited,     \* the pixels quantized so far, in order
    prevWork,    \* the work buffer before the last pixel step
    last,        \* what the last pixel step did: x, y, dir, old, new, error, idx
    input,       \* the caller's image as it was at the call
    rngDraws,    \* how many values self.random_state has produced
    runs,        \* the arrays earlier renders of the same image returned
    raised,      \* the exception that ended the call, "" if none
    stages,      \* the stages entered and the operations computed, in order
    reference,   \* the pipeline's base and toned_reference buffers and the sizes to restore
    converted    \* every conversion to 8-bit so far: where, least and greatest value

\* the fields of an ImageProcessor, its worker pool and its UI thread
VARIABLES
    sourceImage,     \* _source_image: 0 for None, else the number of the loaded image
    previewSource,   \* _preview_source, likewise
    latestRequest,   \* _latest_request
    requestCounter,  \* _request_counter
    previewCache,    \* _preview_cache
    previewRequest,  \* _preview_request
    fullResCache,    \* _full_res_cache
    fullResRequest,  \* _full_res_request
    pool,            \* the worker threads of _executor: position, task, rendered image
    tasks,           \* the submitted calls no worker has taken yet
    ui,              \* where the UI thread is inside load_image
    loads,           \* how many images have been loaded
    enqueued,        \* how many calls enqueue has submitted
    tokens,          \* the tokens enqueue has handed out, in order
    asked,           \* the requests enqueue has been called with, in order
    lastEmit,        \* the last processed.emit: who emitted what, after how many submissions
    lastStore        \* the last write of _preview_cache: by whom, after how many submissions

\* the standalone tool's MainWindow
VARIABLES
    original_image,  \* how many images have been opened; 0 for None
    task_counter,    \* self.task_counter
    active_task_id,  \* self.active_task_id
    current_task,    \* the task_id of self.current_task, 0 for None
    last_result,     \* self.last_result: the task that computed it, 0 for None
    dithered,        \* the image preview.set_dithered showed last, by its task
    message,         \* the status bar
    running,         \* the tasks the thread pool has not finished yet
    signals,         \* finished and failed signals queued for the window's thread
    delivered        \* the slot call made last: its task_id and what it found

winVars == << original_image, task_counter, active_task_id, current_task, last_result,
              dithered, message, running, signals, delivered >>

procVars == << sourceImage, previewSource, latestRequest, requestCounter, previewCache,
               previewRequest, fullResCache, fullResRequest, pool, tasks, ui, loads,
               enqueued, tokens, asked, lastEmit, lastStore >>

engineVars == << engine, algorithm, serpentine, palette, params, kernel, heap, workRef,
                 outRef, resultRef, pc, y, k, visited, prevWork, last, input, rngDraws, runs, raised, stages,
                 reference, converted >>

vars == << engineVars, procVars, winVars >>

\* ------------------------------------------------- ImageProcessor.__init__
\* ThreadPoolExecutor(max_workers=3)
PoolSize == 3
Workers == 1 .. PoolSize
\* a ProcessingRequest, as far as the processor looks at it: its value and
\* its full_resolution flag; NoRequest stands for None
NoRequest == [id |-> "None", full_resolution |-> FALSE]
ProcRequests ==
    { [id |-> "A", full_resolution |-> FALSE], [id |-> "B", full_resolution |-> FALSE],
      [id |-> "F", full_resolution |-> TRUE] }
\* a rendered QImage: the request and the source image it was computed from,
\* and the submission that computed it; NoImage stands for None
NoImage == [request |-> NoRequest, source |-> 0, by |-> 0]
NoTask == [request |-> NoRequest, token |-> 0, seq |-> 0]
IdleWorker == [pc |-> "idle", task |-> NoTask, result |-> NoImage]
NoEmit == [by |-> 0, result |-> NoImage, full |-> FALSE, newest |-> 0, loaded |-> 0]
NoStore == [by |-> 0, newest |-> 0]

ProcInit ==
    /\ sourceImage = 0
    /\ previewSource = 0
    /\ latestRequest = NoRequest
    /\ requestCounter = 0
    /\ previewCache = NoImage
    /\ previewRequest = NoRequest
    /\ fullResCache = NoImage
    /\ fullResRequest = NoRequest
    /\ pool = [w \in Workers |-> IdleWorker]
    /\ tasks = <<>>
    /\ ui = "idle"
    /\ loads = 0
    /\ enqueued = 0
    /\ tokens = <<>>
    /\ asked = <<>>
    /\ lastEmit = NoEmit
    /\ lastStore = NoStore

\* MainWindow.__init__
NoResult == [task_id |-> 0, newest |-> 0]
NoDelivery == [task_id |-> 0, slot |-> "", active |-> 0, result |-> NoResult, dithered |-> 0]
WinInit ==
    /\ original_image = 0
    /\ task_counter = 0
    /\ active_task_id = 0
    /\ current_task = 0
    /\ last_result = NoResult
    /\ dithered = 0
    /\ message = ""
    /\ running = {}
    /\ signals = {}
    /\ delivered = NoDelivery

\* no pipeline has kept a buffer
NoReference == [base |-> <<>>, toned |-> <<>>, size |-> <<0, 0>>, back |-> <<0, 0>>]
NoStep == [x |-> -1, y |-> -1, dir |-> 0, old |-> <<>>, sel |-> <<>>, new |-> <<>>,
           error |-> <<>>, idx |-> 0]
NoParams == [threshold |-> 0, amplitude |-> 100, period |-> 2, numba |-> FALSE]
\* request.threshold 0..255; request.amplitude in hundredths; request.period
Requests ==
    [threshold : {0, 127, 200}, amplitude : {0, 100, 120, 400}, period : {2}, numba : {FALSE}]

EngineInit(eng, alg, serp, pal, prm, img) ==
    /\ engine = eng
    /\ algorithm = alg
    /\ serpentine = serp
    /\ palette = pal
    /\ params = prm
    /\ kernel = <<>>
    /\ heap = <<img>>
    /\ workRef = 0
    /\ outRef = 0
    /\ resultRef = 0
    /\ pc = "start"
    /\ y = 0
    /\ k = 0
    /\ visited = <<>>
    /\ prevWork = <<>>
    /\ last = NoStep
    /\ input = img
    /\ rngDraws = 0
    /\ runs = <<>>
    /\ raised = ""
    /\ stages = <<>>
    /\ reference = NoReference
    /\ converted = <<>>
    /\ ProcInit
    /\ WinInit

\* the loop variables after the pixel at (y, k): for y in range(h): for x in x_range
NextY(yy, kk, w) == IF kk + 1 < w THEN yy ELSE yy + 1
NextK(yy, kk, w) == IF kk + 1 < w THEN kk + 1 ELSE 0

\* for y in range(h): for x in range(w): is there a pixel left to do
InLoop == y < heap[1].h /\ heap[1].w > 0

\* every routine ends by returning one array
Return(eng, ref) ==
    /\ pc = "loop" /\ engine = eng
    /\ ~InLoop
    /\ resultRef' = ref
    /\ pc' = "done"
    /\ UNCHANGED << engine, algorithm, serpentine, palette, params, kernel, heap, workRef,
                    outRef, y, k, visited, prevWork, last, input, rngDraws, runs, raised, stages, reference, converted, procVars, winVars >>

\* ------------------------------------------------- DitheringEngine._error_diffusion
\* kernel = ERROR_DIFFUSION_KERNELS.get(settings.algorithm) or ...["Floyd-Steinberg"]
ResolveKernel(alg) ==
    IF alg \in ToolKernelNames THEN ERROR_DIFFUSION_KERNELS(alg)
    ELSE ERROR_DIFFUSION_KERNELS("Floyd-Steinberg")

\* work = image.copy(); output = np.zeros_like(work)
BeginDiffusion(eng) ==
    /\ pc = "start" /\ engine = eng
    /\ LET c1 == ArrayCopy(heap, 1)
           c2 == ZerosLike(c1.heap, c1.ref)
       IN /\ heap' = c2.heap
          /\ workRef' = c1.ref
          /\ outRef' = c2.ref
    /\ kernel' = ResolveKernel(algorithm)
    /\ pc' = "loop"
    /\ UNCHANGED << engine, algorithm, serpentine, palette, params, resultRef, y, k,
                    visited, prevWork, last, input, rngDraws, runs, raised, stages, reference, converted, procVars, winVars >>

\* one pixel of the loop: quantize to new, write output, spread old - new over work
DiffusionPixel(eng, x, dir, old, new, idx) ==
    LET h   == heap[workRef].h
        w   == heap[workRef].w
        h1  == [heap EXCEPT ![outRef].px[<<y, x>>] = new]
        err == VSub(old, new)
        h2  == [h1 EXCEPT ![workRef].px = Diffuse(@, err, kernel, x, y, dir, w, h)]
    IN /\ heap' = h2
       /\ prevWork' = heap[workRef].px
       /\ last' = [x |-> x, y |-> y, dir |-> dir, old |-> old, sel |-> old, new |-> new,
                   error |-> err, idx |-> idx]
       /\ visited' = Append(visited, <<y, x>>)
       /\ y' = NextY(y, k, w)
       /\ k' = NextK(y, k, w)
       /\ UNCHANGED << engine, algorithm, serpentine, palette, params, kernel, workRef,
                       outRef, resultRef, pc, input, rngDraws, runs, raised, stages, reference, converted, procVars, winVars >>

EDBegin == BeginDiffusion("ed")

EDPixel ==
    /\ pc = "loop" /\ engine = "ed"
    /\ InLoop
    /\ Len(palette) > 0
    /\ LET x   == XAt(y, k, heap[workRef].w, serpentine)
           old == heap[workRef].px[<<y, x>>]
           idx == argmin_distance(old, palette)
       IN DiffusionPixel("ed", x, Direction(y, serpentine), old, palette[idx], idx)

EDReturn == Return("ed", outRef)

\* -------------------------------------------- DitheringEngine._error_diffusion_gray
\* new = 1.0 if old >= 0.5 else 0.0, on a single-channel plane
GrayQuantize(old) == <<IF 2 * old[1] >= Full THEN Full ELSE 0>>

GrayBegin == BeginDiffusion("gray")

GrayPixel ==
    /\ pc = "loop" /\ engine = "gray"
    /\ InLoop
    /\ LET x   == XAt(y, k, heap[workRef].w, serpentine)
           old == heap[workRef].px[<<y, x>>]
       IN DiffusionPixel("gray", x, Direction(y, serpentine), old, GrayQuantize(old), 0)

GrayReturn == Return("gray", outRef)

\* ------------------------------------------------- DitheringEngine._ordered_dither
\* ORDERED_MATRICES: integer entries over a common divisor
M(den, rows) == [den |-> den, rows |-> rows]
Bayer2 == M(4, << <<0, 2>>, <<3, 1>> >>)
Bayer4 == M(16, << <<0, 8, 2, 10>>, <<12, 4, 14, 6>>, <<3, 11, 1, 9>>, <<15, 7, 13, 5>> >>)
Bayer8 ==
    M(64, << <<0, 32, 8, 40, 2, 34, 10, 42>>,
             <<48, 16, 56, 24, 50, 18, 58, 26>>,
             <<12, 44, 4, 36, 14, 46, 6, 38>>,
             <<60, 28, 52, 20, 62, 30, 54, 22>>,
             <<3, 35, 11, 43, 1, 33, 9, 41>>,
             <<51, 19, 59, 27, 49, 17, 57, 25>>,
             <<15, 47, 7, 39, 13, 45, 5, 37>>,
             <<63, 31, 55, 23, 61, 29, 53, 21>> >>)
ClusteredDot == M(16, << <<8, 3, 4, 9>>, <<2, 1, 0, 5>>, <<7, 6, 11, 10>>, <<12, 13, 14, 15>> >>)

\* a Bayer 4x4 with a repeated entry
Bayer4Repeated ==
    M(16, << <<0, 8, 2, 10>>, <<12, 4, 14, 6>>, <<3, 11, 1, 9>>, <<15, 7, 13, 15>> >>)
BayerNames == { "Bayer 2x2", "Bayer 4x4", "Bayer 8x8" }
OrderedNames == BayerNames \cup { "Clustered Dot (ordered)" }
OrderedMatricesRepeated(name) ==
    CASE name = "Bayer 2x2" -> Bayer2
      [] name = "Bayer 4x4" -> Bayer4Repeated
      [] name = "Bayer 8x8" -> Bayer8
      [] name = "Clustered Dot (ordered)" -> ClusteredDot
ORDERED_MATRICES(name) ==
    CASE name = "Bayer 2x2" -> Bayer2
      [] name = "Bayer 4x4" -> Bayer4
      [] name = "Bayer 8x8" -> Bayer8
      [] name = "Clustered Dot (ordered)" -> ClusteredDot

\* offset / max(len(palette), 2), offset = matrix[y % tile_h, x % tile_w] - 0.5
OrderedBias(mat, yy, xx, n) ==
    LET tile_h == Len(mat.rows)
        tile_w == Len(mat.rows[1])
        t      == mat.rows[(yy % tile_h) + 1][(xx % tile_w) + 1]
    IN RoundDiv(Full * (2 * t - mat.den), 2 * mat.den * Max2(n, 2))
\* clamp01(image[y, x] + bias)
Biased(pixel, bias) == [c \in DOMAIN pixel |-> Clip(pixel[c] + bias, 0, Full)]

\* matrix = ORDERED_MATRICES[settings.algorithm]; output = np.zeros_like(image)
OrderedBegin ==
    /\ pc = "start" /\ engine = "ordered"
    /\ LET c == ZerosLike(heap, 1)
       IN /\ heap' = c.heap
          /\ outRef' = c.ref
    /\ kernel' = ORDERED_MATRICES(algorithm)
    /\ pc' = "loop"
    /\ UNCHANGED << engine, algorithm, serpentine, palette, params, workRef, resultRef, y, k,
                    visited, prevWork, last, input, rngDraws, runs, raised, stages, reference, converted, procVars, winVars >>

\* one pixel of a loop that selects the nearest colour of a perturbed pixel
SelectPixel(old, sel, bias) ==
    LET idx == argmin_distance(sel, palette)
    IN /\ heap' = [heap EXCEPT ![outRef].px[<<y, k>>] = palette[idx]]
       /\ last' = [x |-> k, y |-> y, dir |-> 1, old |-> old, sel |-> sel,
                   new |-> palette[idx], error |-> <<>>, idx |-> idx, bias |-> bias]
       /\ visited' = Append(visited, <<y, k>>)
       /\ y' = NextY(y, k, heap[1].w)
       /\ k' = NextK(y, k, heap[1].w)
       /\ UNCHANGED << engine, algorithm, serpentine, palette, params, kernel, workRef,
                       outRef, resultRef, pc, prevWork, input, rngDraws, runs, raised, stages, reference, converted, procVars, winVars >>

OrderedPixel ==
    /\ pc = "loop" /\ engine = "ordered"
    /\ InLoop
    /\ Len(palette) > 0
    /\ LET old  == heap[1].px[<<y, k>>]
           bias == OrderedBias(kernel, y, k, Len(palette))
       IN SelectPixel(old, Biased(old, bias), bias)

OrderedReturn == Return("ordered", outRef)

\* ------------------------------------------------- DitheringEngine._random_dither
\* self.random_state = np.random.RandomState(0): the Mersenne Twister seeded
\* with 0.  Its first 128 values of random_sample(), in whole sixteenths
\* (0.5488, 0.7151, 0.6027, ... are 8, 11, 9, ...).
RandomState0 ==
    << 8, 11, 9, 8, 6, 10, 7, 14, 15, 6, 12, 8, 9, 14, 1, 1,
       0, 13, 12, 13, 15, 12, 7, 12, 1, 10, 2, 15, 8, 6, 4, 12,
       7, 9, 0, 9, 9, 9, 15, 10, 5, 6, 11, 0, 10, 10, 3, 2,
       5, 5, 9, 7, 15, 1, 3, 2, 10, 4, 7, 3, 2, 1, 10, 2,
       3, 5, 13, 1, 13, 1, 15, 7, 15, 9, 11, 0, 4, 1, 4, 1,
       5, 6, 1, 11, 9, 4, 8, 1, 9, 14, 5, 10, 2, 11, 4, 2,
       9, 0, 13, 0, 10, 4, 11, 15, 3, 9, 9, 9, 3, 15, 7, 13,
       11, 4, 13, 6, 14, 9, 14, 11, 11, 8, 15, 10, 6, 9, 0, 4 >>
\* the n-th value the generator hands out, n counted from 0
Uniform16(n) == RandomState0[n + 1]
\* uniform(-1/len(palette), 1/len(palette)) for draw n
RandomNoise(n, len) == RoundDiv(Full * (2 * Uniform16(n) - 16), 16 * len)
DrawIndex(p, c, w, nc) == (p[1] * w + p[2]) * nc + (c - 1)

\* noise = uniform(..., size=image.shape); noisy = clamp01(image + noise);
\* output = np.zeros_like(image)
RandomBegin ==
    /\ pc = "start" /\ engine = "random"
    /\ Len(palette) > 0
    /\ LET img   == heap[1]
           noisy == MkArray(img.h, img.w, img.c,
                        [p \in Pos(img.h, img.w) |->
                            [c \in 1 .. img.c |->
                                Clip(img.px[p][c]
                                     + RandomNoise(rngDraws + DrawIndex(p, c, img.w, img.c),
                                                   Len(palette)),
                                     0, Full)]])
           h1    == Append(heap, noisy)
           c2    == ZerosLike(h1, 1)
       IN /\ heap' = c2.heap
          /\ workRef' = Len(h1)
          /\ outRef' = c2.ref
          /\ rngDraws' = rngDraws + img.h * img.w * img.c
    /\ pc' = "loop"
    /\ UNCHANGED << engine, algorithm, serpentine, palette, params, kernel, resultRef, y, k,
                    visited, prevWork, last, input, runs, raised, stages, reference, converted, procVars, winVars >>

RandomPixel ==
    /\ pc = "loop" /\ engine = "random"
    /\ InLoop
    /\ Len(palette) > 0
    /\ SelectPixel(heap[1].px[<<y, k>>], heap[workRef].px[<<y, k>>], 0)

RandomReturn == Return("random", outRef)

\* ------------------------------------------------- exceptions of the palette search
\* the call ends with an exception; nothing is returned
Raise(exc) ==
    /\ pc' = "error"
    /\ raised' = exc
    /\ UNCHANGED << engine, algorithm, serpentine, palette, params, kernel, heap, workRef,
                    outRef, resultRef, y, k, visited, prevWork, last, input, rngDraws, runs, stages, reference, converted, procVars, winVars >>

\* np.argmin(dist) of an empty dist: "attempt to get an argmin of an empty sequence"
ArgminRaises ==
    /\ pc = "loop" /\ engine \in {"ed", "ordered", "random"}
    /\ InLoop
    /\ Len(palette) = 0
    /\ Raise("ValueError")

\* -1.0 / len(palette) with an empty palette
RandomDivides ==
    /\ pc = "start" /\ engine = "random"
    /\ Len(palette) = 0
    /\ Raise("ZeroDivisionError")

\* ------------------------------------------------- app.core.dithering._error_diffusion
\* strength = np.clip(request.amplitude, 0.1, 3.0), in hundredths
Strength(prm) == Clip(prm.amplitude, 10, 300)
\* threshold = np.clip(request.threshold + (strength - 1.0) * 60.0, 0.0, 255.0)
EffectiveThreshold(prm) ==
    Clip(U8(prm.threshold) + RoundDiv((Strength(prm) - 100) * 60 * FracUnits, 100), 0, Full)
\* diffusion_gain = 0.75 + strength * 0.75, as a fraction of 400
GainNum(prm) == 300 + 3 * Strength(prm)
\* the pixel left as it was found
ThresholdPixelKept(old, thr) == old
\* np.where(old_pixel > threshold, 255.0, 0.0)
ThresholdPixel(old, thr) == [c \in DOMAIN old |-> IF old[c] > thr THEN Full ELSE 0]

\* buffer = image.copy()
CoreBegin ==
    /\ pc = "start" /\ engine = "core"
    /\ LET c1 == ArrayCopy(heap, 1)
       IN /\ heap' = c1.heap
          /\ workRef' = c1.ref
    /\ kernel' = CoreDiffusionMatrix(algorithm)
    /\ pc' = "loop"
    /\ UNCHANGED << engine, algorithm, serpentine, palette, params, outRef, resultRef, y, k,
                    visited, prevWork, last, input, rngDraws, runs, raised, stages, reference, converted, procVars, winVars >>

\* one pixel of an in-place loop: buffer[y, x] = new_pixel, then the shares
InPlacePixel(old, new, err) ==
    LET h   == heap[workRef].h
        w   == heap[workRef].w
        h1  == [heap EXCEPT ![workRef].px[<<y, k>>] = new]
        h2  == [h1 EXCEPT ![workRef].px = Diffuse(@, err, kernel, k, y, 1, w, h)]
    IN /\ heap' = h2
       /\ prevWork' = heap[workRef].px
       /\ last' = [x |-> k, y |-> y, dir |-> 1, old |-> old, sel |-> old, new |-> new,
                   error |-> err, idx |-> 0]
       /\ visited' = Append(visited, <<y, k>>)
       /\ y' = NextY(y, k, w)
       /\ k' = NextK(y, k, w)
       /\ UNCHANGED << engine, algorithm, serpentine, palette, params, kernel, workRef,
                       outRef, resultRef, pc, input, rngDraws, runs, raised, stages, reference, converted, procVars, winVars >>

\* error = (old_pixel - new_pixel) * diffusion_gain
CorePixel ==
    /\ pc = "loop" /\ engine = "core"
    /\ InLoop
    /\ LET old == heap[workRef].px[<<y, k>>]
           new == ThresholdPixel(old, EffectiveThreshold(params))
       IN InPlacePixel(old, new, VShare(VSub(old, new), GainNum(params), 400))

\* np.clip(buffer, 0, 255): a new array
ClipArray(a) == MkArray(a.h, a.w, a.c, [p \in Pos(a.h, a.w) |-> VClip(a.px[p], 0, Full)])
ReturnClipped(eng) ==
    /\ pc = "loop" /\ engine = eng
    /\ ~InLoop
    /\ heap' = Append(heap, ClipArray(heap[workRef]))
    /\ resultRef' = Len(heap) + 1
    /\ pc' = "done"
    /\ UNCHANGED << engine, algorithm, serpentine, palette, params, kernel, workRef,
                    outRef, y, k, visited, prevWork, last, input, rngDraws, runs, raised, stages, reference, converted, procVars, winVars >>

CoreReturn == ReturnClipped("core")

\* ------------------------------------- app.core.accelerators.error_diffusion_accelerated
\* if _error_diffusion_kernel is None: return None  (numba missing)
NumbaMissing ==
    /\ pc = "start" /\ engine = "numba"
    /\ ~params.numba
    /\ pc' = "done"
    /\ UNCHANGED << engine, algorithm, serpentine, palette, params, kernel, heap, workRef,
                    outRef, resultRef, y, k, visited, prevWork, last, input, rngDraws, runs, raised, stages, reference, converted, procVars, winVars >>

\* buffer = np.ascontiguousarray(image.copy())
NumbaBegin ==
    /\ pc = "start" /\ engine = "numba"
    /\ params.numba
    /\ LET c1 == ArrayCopy(heap, 1)
       IN /\ heap' = c1.heap
          /\ workRef' = c1.ref
    /\ kernel' = CoreDiffusionMatrix(algorithm)
    /\ pc' = "loop"
    /\ UNCHANGED << engine, algorithm, serpentine, palette, params, outRef, resultRef, y, k,
                    visited, prevWork, last, input, rngDraws, runs, raised, stages, reference, converted, procVars, winVars >>

\* _numba_error_diffusion: for channel in range(channels), each channel
\* thresholded and spread on its own; the shares of one channel never touch
\* another, so the channel loop is the element-wise step
NumbaPixel ==
    /\ pc = "loop" /\ engine = "numba"
    /\ InLoop
    /\ LET old == heap[workRef].px[<<y, k>>]
           new == ThresholdPixel(old, U8(params.threshold))
       IN InPlacePixel(old, new, VSub(old, new))

NumbaReturn == ReturnClipped("numba")

\* ------------------------------------------------- app.core.dithering pattern family
\* _threshold: np.where(image > threshold, 255.0, 0.0)
ThresholdArray(a, thr) ==
    MkArray(a.h, a.w, a.c, [p \in Pos(a.h, a.w) |-> ThresholdPixel(a.px[p], thr)])
\* ((np.arange(n) % period) / period) * 255
Sawtooth(i, period) == RoundDiv((i % period) * Full, period)
\* image - request.amplitude * pattern[..., None]: a new array
Modulated(a, prm, byRow) ==
    MkArray(a.h, a.w, a.c,
        [p \in Pos(a.h, a.w) |->
            [c \in 1 .. a.c |->
                a.px[p][c] - RoundDiv(prm.amplitude
                                      * Sawtooth(IF byRow THEN p[1] ELSE p[2], prm.period),
                                      100)]])

PatternRun(eng, byRow) ==
    /\ pc = "start" /\ engine = eng
    /\ LET h1 == Append(heap, Modulated(heap[1], params, byRow))
           h2 == Append(h1, ThresholdArray(h1[Len(h1)], U8(params.threshold)))
       IN /\ heap' = h2
          /\ workRef' = Len(h1)
          /\ resultRef' = Len(h2)
    /\ pc' = "done"
    /\ UNCHANGED << engine, algorithm, serpentine, palette, params, kernel, outRef, y, k,
                    visited, prevWork, last, input, rngDraws, runs, raised, stages, reference, converted, procVars, winVars >>

row_modulation == PatternRun("row_modulation", TRUE)
column_modulation == PatternRun("column_modulation", FALSE)

\* ------------------------------------------------- ImageProcessor._map_to_palette
\* indices = np.argmin(distances, axis=1); mapped = palette[indices]
MapToPalette ==
    /\ pc = "start" /\ engine = "map"
    /\ LET img == heap[1]
           ind == [p \in Pos(img.h, img.w) |-> argmin_distance(img.px[p], palette)]
       IN /\ heap' = Append(heap, MkArray(img.h, img.w, img.c,
                                     [p \in Pos(img.h, img.w) |-> palette[ind[p]]]))
          /\ last' = [NoStep EXCEPT !.idx = ind]
    /\ resultRef' = Len(heap) + 1
    /\ pc' = "done"
    /\ UNCHANGED << engine, algorithm, serpentine, palette, params, kernel, workRef, outRef,
                    y, k, visited, prevWork, input, rngDraws, runs, raised, stages, reference, converted, procVars, winVars >>

\* ------------------------------------------------- DitheringEngine.generate_palette
RGB(r, g, b) == <<U8(r), U8(g), U8(b)>>
GameBoy == << RGB(15, 56, 15), RGB(48, 98, 48), RGB(139, 172, 15), RGB(155, 188, 15) >>
NES16 ==
    << RGB(124, 124, 124), RGB(0, 0, 252), RGB(0, 0, 188), RGB(68, 40, 188),
       RGB(148, 0, 132), RGB(168, 0, 32), RGB(168, 16, 0), RGB(136, 20, 0),
       RGB(80, 48, 0), RGB(0, 120, 0), RGB(0, 104, 0), RGB(0, 88, 0),
       RGB(0, 64, 88), RGB(0, 0, 0), RGB(188, 188, 188), RGB(0, 120, 248) >>
CGA16 ==
    << RGB(0, 0, 0), RGB(0, 0, 170), RGB(0, 170, 0), RGB(0, 170, 170),
       RGB(170, 0, 0), RGB(170, 0, 170), RGB(170, 85, 0), RGB(170, 170, 170),
       RGB(85, 85, 85), RGB(85, 85, 255), RGB(85, 255, 85), RGB(85, 255, 255),
       RGB(255, 85, 85), RGB(255, 85, 255), RGB(255, 255, 85), RGB(255, 255, 255) >>
PresetNames == { "GameBoy (4 colors)", "NES (16 colors)", "CGA (16 colors)" }
PRESET_PALETTES(mode) ==
    CASE mode = "GameBoy (4 colors)" -> GameBoy
      [] mode = "NES (16 colors)" -> NES16
      [] mode = "CGA (16 colors)" -> CGA16

\* palette[:n]
Truncate(seq, n) == SubSeq(seq, 1, Min2(n, Len(seq)))
\* np.linspace(0, 1, n) stacked into grey triples
GrayRamp(n) == [i \in 1 .. n |-> LET v == RoundDiv(Full * (i - 1), n - 1) IN <<v, v, v>>]
\* mode.startswith("Custom")
IsCustomMode(mode) == mode = "Custom Palette (load...)"
\* the colours Pillow's median cut may hand back for an image, most frequent
\* content first: the image's pixels in scan order, then black padding
RECURSIVE ScanColours(_, _)
ScanColours(img, n) ==
    IF n = 0 THEN <<>>
    ELSE LET i == n - 1
         IN Append(ScanColours(img, n - 1),
                   IF i < img.h * img.w THEN img.px[<<i \div img.w, i % img.w>>]
                   ELSE ZerosOf(img).px[<<0, 0>>])

\* num_colors = max(2, int(settings.num_colors))
NumColors(st) == Max2(2, st.num_colors)

\* the palettes generate_palette(image, settings) may return
BuildPalette(st, img) ==
    LET mode == st.palette_mode
        n    == NumColors(st)
    IN IF st.custom_palette # "None" /\ IsCustomMode(mode)
       THEN { Truncate(st.custom_palette, n) }
       ELSE IF mode = "Grayscale"
       THEN { GrayRamp(n) }
       ELSE IF mode \in PresetNames
       THEN { Truncate(PRESET_PALETTES(mode), n) }
       ELSE \* quantized.getpalette()[: num_colors * 3]: as many entries as
            \* the library's palette holds, at most num_colors
            { IF got = 0 THEN <<RGB(0, 0, 0)>> ELSE ScanColours(img, got) : got \in 0 .. n }

generate_palette ==
    /\ pc = "start" /\ engine = "generate_palette"
    /\ \E pal \in BuildPalette(params, heap[1]) : palette' = pal
    /\ pc' = "done"
    /\ UNCHANGED << engine, algorithm, serpentine, params, kernel, heap, workRef, outRef,
                    resultRef, y, k, visited, prevWork, last, input, rngDraws, runs, raised, stages, reference, converted, procVars, winVars >>

PaletteModes ==
    { "Original Image Palette", "Grayscale", "Custom Palette (load...)" } \cup PresetNames
CustomPalettes ==
    { "None", <<>>, <<RGB(255, 0, 0), RGB(0, 255, 0)>>,
      <<RGB(10, 20, 30), RGB(40, 50, 60), RGB(70, 80, 90)>> }
PaletteSettings ==
    [palette_mode : PaletteModes, num_colors : 0 .. MaxColors, custom_palette : CustomPalettes]

InitPalette ==
    \E st \in PaletteSettings, img \in { ImageOf(kind, 1, 2) : kind \in 1 .. NumImages } :
        EngineInit("generate_palette", "", FALSE, <<>>, st, img)

\* ------------------------------------------------------------ _hex_to_rgb
\* text is a sequence of one-character strings
HexChars ==
    << "0", "1", "2", "3", "4", "5", "6", "7", "8", "9", "a", "b", "c", "d", "e", "f" >>
UpperHexChars == << "A", "B", "C", "D", "E", "F" >>
IsHexDigit(ch) ==
    \/ \E i \in 1 .. Len(HexChars) : HexChars[i] = ch
    \/ \E i \in 1 .. Len(UpperHexChars) : UpperHexChars[i] = ch
HexVal(ch) ==
    IF \E i \in 1 .. Len(HexChars) : HexChars[i] = ch
    THEN (CHOOSE i \in 1 .. Len(HexChars) : HexChars[i] = ch) - 1
    ELSE (CHOOSE i \in 1 .. Len(UpperHexChars) : UpperHexChars[i] = ch) + 9
IsSpace(ch) == ch = " "

\* str.strip(): leading and trailing whitespace removed
RECURSIVE LStrip(_)
LStrip(t) == IF Len(t) > 0 /\ IsSpace(t[1]) THEN LStrip(Tail(t)) ELSE t
RECURSIVE RStrip(_)
RStrip(t) == IF Len(t) > 0 /\ IsSpace(t[Len(t)]) THEN RStrip(SubSeq(t, 1, Len(t) - 1)) ELSE t
Strip(t) == RStrip(LStrip(t))
\* str.lstrip("#"): every leading '#' removed
RECURSIVE LStripHash(_)
LStripHash(t) == IF Len(t) > 0 /\ t[1] = "#" THEN LStripHash(Tail(t)) ELSE t

\* what a parser yields when it raises ValueError: no colour
Invalid == <<>>
\* int(t, 16) of a two-character text: two digits, or a sign or a blank
\* before one digit, or one digit before a blank; -1 stands for ValueError
PyInt16(t) ==
    CASE IsHexDigit(t[1]) /\ IsHexDigit(t[2]) -> 16 * HexVal(t[1]) + HexVal(t[2])
      [] (t[1] = "+" \/ IsSpace(t[1])) /\ IsHexDigit(t[2]) -> HexVal(t[2])
      [] IsHexDigit(t[1]) /\ IsSpace(t[2]) -> HexVal(t[1])
      [] OTHER -> -1

\* the three int(value[i:i+2], 16) of a six-character text
SixDigits(v) ==
    LET r == PyInt16(SubSeq(v, 1, 2))
        g == PyInt16(SubSeq(v, 3, 4))
        b == PyInt16(SubSeq(v, 5, 6))
    IN IF r < 0 \/ g < 0 \/ b < 0 THEN Invalid ELSE <<r, g, b>>
\* int(value[i] * 2, 16) of a three-character text
ThreeDigits(v) ==
    IF \A i \in 1 .. 3 : IsHexDigit(v[i])
    THEN [i \in 1 .. 3 |-> 17 * HexVal(v[i])]
    ELSE Invalid

\* ImageProcessor._hex_to_rgb
CoreHexToRgb(value) ==
    LET v == LStripHash(Strip(value))
    IN IF Len(v) # 6 THEN Invalid ELSE SixDigits(v)
\* MainWindow._hex_to_rgb
ToolHexToRgb(value) ==
    LET v == LStripHash(Strip(value))
    IN IF Len(v) = 6 THEN SixDigits(v)
       ELSE IF Len(v) = 3 THEN ThreeDigits(v)
       ELSE Invalid

\* ------------------------------------------ DitheringEngine.apply_adjustments
\* every sample of an array through F
MapPx(a, F(_)) ==
    MkArray(a.h, a.w, a.c, [p \in Pos(a.h, a.w) |-> [c \in 1 .. a.c |-> F(a.px[p][c])]])

\* ensure_uint8: (np.clip(image, 0, 1) * 255).astype(np.uint8), samples 0..255
EnsureUint8(a) == MapPx(a, LAMBDA v : Clip(v, 0, Full) \div FracUnits)
\* the buffer ensure_uint8 converts: np.clip(image, 0, 1) * 255, its least
\* and greatest sample
ToolConversion(a) ==
    LET S == { Clip(a.px[p][c], 0, Full) : p \in DOMAIN a.px, c \in 1 .. a.c }
    IN << [at |-> "ensure_uint8",
           lo |-> CHOOSE v \in S : \A u \in S : v <= u,
           hi |-> CHOOSE v \in S : \A u \in S : u <= v] >>
\* from_uint8: image.astype(np.float32) / 255.0
FromUint8(a) == MapPx(a, LAMBDA v : U8(v))

\* np.power(x, n) for a whole exponent n, x in 0..1
RECURSIVE Pow(_, _)
Pow(v, n) == IF n = 0 THEN Full ELSE RoundDiv(v * Pow(v, n - 1), Full)

\* AdjustmentSettings; brightness, contrast, gamma, blur_radius and
\* sharpen_amount in hundredths
NeutralAdjustments ==
    [brightness |-> 0, contrast |-> 0, gamma |-> 100, blur_radius |-> 0,
     sharpen_amount |-> 0, denoise |-> FALSE]
Adjustments ==
    { NeutralAdjustments,
      [NeutralAdjustments EXCEPT !.brightness = 20],
      [NeutralAdjustments EXCEPT !.brightness = -20],
      [NeutralAdjustments EXCEPT !.contrast = 50],
      [NeutralAdjustments EXCEPT !.gamma = 200],
      [NeutralAdjustments EXCEPT !.blur_radius = 150],
      [NeutralAdjustments EXCEPT !.sharpen_amount = 50],
      [NeutralAdjustments EXCEPT !.denoise = TRUE] }

\* rgb = clamp01(rgb + adjustments.brightness)
Brightened(a, b) == MapPx(a, LAMBDA v : Clip(v + RoundDiv(b * Full, 100), 0, Full))
\* factor = 1.0 + contrast; rgb = clamp01((rgb - 0.5) * factor + 0.5)
ToolContrasted(a, c) ==
    MapPx(a, LAMBDA v : Clip(RoundDiv((v - Full \div 2) * (100 + c), 100) + Full \div 2, 0, Full))
\* rgb = clamp01(np.power(rgb, max(gamma, 1e-5)))
ToolGamma(a, g) == MapPx(a, LAMBDA v : Clip(Pow(v, g \div 100), 0, Full))

\* what cv2.GaussianBlur, fastNlMeansDenoisingColored, the unsharp mask or
\* their Pillow fallbacks hand back is the library's matter: an image of the
\* same shape, here the image itself or one flattened to its first pixel
Flat(a) == MkArray(a.h, a.w, a.c, [p \in Pos(a.h, a.w) |-> a.px[<<0, 0>>]])
Filtered(a) == {a, Flat(a)}

\* the operations apply_adjustments computes for the settings, in order
AdjustmentOps(adj) ==
    (IF adj.brightness # 0 THEN <<"brightness">> ELSE <<>>)
    \o (IF adj.contrast # 0 THEN <<"contrast">> ELSE <<>>)
    \o (IF adj.gamma # 100 THEN <<"gamma">> ELSE <<>>)
    \o (IF adj.blur_radius > 0 THEN <<"blur">> ELSE <<>>)
    \o (IF adj.denoise THEN <<"denoise">> ELSE <<>>)
    \o (IF adj.sharpen_amount > 0 THEN <<"sharpen">> ELSE <<>>)

\* adjusted = self.apply_adjustments(image, adjustments)
apply_adjustments ==
    /\ pc = "start" /\ engine = "dither"
    /\ LET adj  == params.adjustments
           img  == heap[1]
           rgb1 == IF adj.brightness # 0 THEN Brightened(img, adj.brightness) ELSE img
           rgb2 == IF adj.contrast # 0 THEN ToolContrasted(rgb1, adj.contrast) ELSE rgb1
           rgb3 == IF adj.gamma # 100 THEN ToolGamma(rgb2, adj.gamma) ELSE rgb2
           u8   == EnsureUint8(rgb3)
       IN \E b1 \in IF adj.blur_radius > 0 THEN Filtered(u8) ELSE {u8} :
          \E b2 \in IF adj.denoise THEN Filtered(b1) ELSE {b1} :
          \E b3 \in IF adj.sharpen_amount > 0 THEN Filtered(FromUint8(b2))
                    ELSE {FromUint8(b2)} :
              /\ heap' = Append(heap, b3)
              /\ workRef' = Len(heap) + 1
              /\ stages' = <<"apply_adjustments">> \o AdjustmentOps(adj)
              /\ converted' = converted \o ToolConversion(rgb3)
    /\ pc' = "palette"
    /\ UNCHANGED << engine, algorithm, serpentine, palette, params, kernel, outRef, resultRef,
                    y, k, visited, prevWork, last, input, rngDraws, runs, raised, reference, procVars, winVars >>

\* ------------------------------------------------------ DitheringEngine.dither
\* palette = self.generate_palette(adjusted, settings)
DitherPalette ==
    /\ pc = "palette" /\ engine = "dither"
    /\ \E pal \in BuildPalette(params, heap[workRef]) : palette' = pal
    /\ stages' = Append(stages, "generate_palette")
    /\ pc' = "dispatch"
    /\ UNCHANGED << engine, algorithm, serpentine, params, kernel, heap, workRef, outRef,
                    resultRef, y, k, visited, prevWork, last, input, rngDraws, runs, raised, reference, converted, procVars, winVars >>

\* the routine the if/elif chain on settings.algorithm selects; the else
\* branch is the Floyd-Steinberg fallback
DitherRoutine(alg) ==
    IF alg \in ToolKernelNames THEN "ed"
    ELSE IF alg \in OrderedNames THEN "ordered"
    ELSE IF alg = "Random" THEN "random"
    ELSE "ed"

\* result_rgb = self._error_diffusion(work_rgb, palette, settings) and its
\* siblings: the routine is entered with the adjusted image as its argument.
\* The clamp01 of the routine's result leaves palette colours as they are.
DitherDispatch ==
    /\ pc = "dispatch" /\ engine = "dither"
    /\ engine' = DitherRoutine(algorithm)
    /\ heap' = << heap[workRef] >>
    /\ input' = heap[workRef]
    /\ workRef' = 0
    /\ stages' = Append(stages, "dither")
    /\ pc' = "start"
    /\ UNCHANGED << algorithm, serpentine, palette, params, kernel, outRef, resultRef,
                    y, k, visited, prevWork, last, rngDraws, runs, raised, reference, converted, procVars, winVars >>

\* settings.algorithm of a render: catalog names and one that is in no catalog
ToolCatalog == ToolKernelNames \cup OrderedNames \cup {"Random"}
DitherAlgorithms == {"Floyd-Steinberg", "Atkinson", "Bayer 2x2", "Random", "Unknown"}
InitDither ==
    \E alg \in DitherAlgorithms, serp \in BOOLEAN, adj \in Adjustments,
       img \in { ImageOf(kind, 2, 2) : kind \in 1 .. NumImages } :
        EngineInit("dither", alg, serp, <<>>,
                   [adjustments |-> adj, palette_mode |-> "Grayscale", num_colors |-> 2,
                    custom_palette |-> "None"], img)

\* -------------------------------------------- ImageProcessor._apply_pipeline
\* the buffers hold 0..255 as 0..Full; scales, gamma, contrast, saturation,
\* vignette_strength and noise_level are in hundredths, hue_shift in degrees
MapPixels(a, F(_)) == MkArray(a.h, a.w, a.c, [p \in Pos(a.h, a.w) |-> F(a.px[p])])

\* np.round(v / d): halves go to the even neighbour
RoundHalfEven(v, d) ==
    LET q == v \div d
        r == v % d
    IN IF 2 * r < d THEN q
       ELSE IF 2 * r > d THEN q + 1
       ELSE IF q % 2 = 0 THEN q ELSE q + 1

\* np.dot(image[..., :3], [0.2126, 0.7152, 0.0722])
Luminance(px) == RoundDiv(2126 * px[1] + 7152 * px[2] + 722 * px[3], 10000)

ColourModes ==
    { "RGB Balance", "Mono Luma", "Indexed 4", "Indexed 8", "Retro 16-bit RGB",
      "Retro 8-bit RGB", "Hi-Fi Neon", "CMYK Composite" }
\* _apply_colour_mode, for the modes the requests below use
ApplyColourMode(image, mode) ==
    CASE mode = "RGB Balance" -> image
      [] mode = "Mono Luma" ->
            MapPixels(image, LAMBDA px : LET l == Luminance(px) IN <<l, l, l>>)
      [] mode = "Indexed 4" -> MapPx(image, LAMBDA v : RoundHalfEven(v, U8(85)) * U8(85))
      [] mode = "Indexed 8" -> MapPx(image, LAMBDA v : RoundHalfEven(v, U8(36)) * U8(36))
      [] mode \notin ColourModes -> image

\* _resolve_palette: a self._hex_to_rgb of the two colour fields raises
PaletteRaises(request) ==
    /\ request.palette_mode = "Custom Two-Tone"
    /\ \/ CoreHexToRgb(request.colour_a) = Invalid
       \/ CoreHexToRgb(request.colour_b) = Invalid
\* _resolve_palette for "Custom Two-Tone": np.stack([dark, light])
ResolvePalette(request) ==
    LET dark  == CoreHexToRgb(request.colour_a)
        light == CoreHexToRgb(request.colour_b)
    IN << RGB(dark[1], dark[2], dark[3]), RGB(light[1], light[2], light[3]) >>

\* (1.0 - luminance) * dark + luminance * light
TwoTone(image, pal) ==
    MapPixels(image, LAMBDA px :
        LET l == Luminance(px)
        IN [c \in 1 .. 3 |-> RoundDiv((Full - l) * pal[1][c] + l * pal[2][c], Full)])

\* _apply_colour_controls: np.clip(image * scales, 0, 255), colour mode, palette mode
ColourControls(image, request) ==
    LET scales == << request.red_scale, request.green_scale, request.blue_scale >>
        scaled == MapPixels(image, LAMBDA px :
                      [c \in 1 .. 3 |-> Clip(RoundDiv(px[c] * scales[c], 100), 0, Full)])
        moded  == ApplyColourMode(scaled, request.colour_mode)
    IN IF request.palette_mode = "Disabled" THEN moded
       ELSE TwoTone(moded, ResolvePalette(request))

\* _apply_contrast: np.clip((image - 127.5) * factor + 127.5, 0, 255)
CoreContrasted(v, contrast) ==
    Clip(RoundDiv((v - Full \div 2) * Max2(contrast, 0), 100) + Full \div 2, 0, Full)

\* _apply_hsv_controls on one pixel: hue as a count of delta-ths of a sixth
HsvPixel(px, request) ==
    LET r     == px[1]
        g     == px[2]
        b     == px[3]
        maxc  == Max2(r, Max2(g, b))
        minc  == Min2(r, Min2(g, b))
        delta == maxc - minc
        unit  == Max2(delta, 1)
        \* hue[r_mask], hue[g_mask], hue[b_mask]: the later assignment stays
        hue   == IF delta = 0 THEN 0
                 ELSE IF maxc = b THEN (r - g) + 4 * delta
                 ELSE IF maxc = g THEN (b - r) + 2 * delta
                 ELSE (g - b) % (6 * delta)
        h6    == (hue + (request.hue_shift \div 60) * unit) % (6 * unit)
        i     == h6 \div unit
        f     == h6 % unit
        \* value * saturation_values, saturation_values clipped to 0..1
        vs    == IF maxc = 0 THEN 0
                 ELSE Min2(RoundDiv(delta * Max2(request.saturation, 0), 100), maxc)
        value == maxc
        pp    == value - vs
        q     == value - RoundDiv(vs * f, unit)
        t     == value - RoundDiv(vs * (unit - f), unit)
    IN VClip(<< <<value, q, pp, pp, t, value>>[i + 1],
                <<t, value, value, q, pp, pp>>[i + 1],
                <<pp, pp, t, value, value, q>>[i + 1] >>, 0, Full)

\* floor(sqrt(n)) between lo and hi
RECURSIVE SqrtBetween(_, _, _)
SqrtBetween(n, lo, hi) ==
    IF lo >= hi THEN lo
    ELSE LET mid == (lo + hi + 1) \div 2
         IN IF mid * mid <= n THEN SqrtBetween(n, mid, hi) ELSE SqrtBetween(n, lo, mid - 1)
ISqrt(n) == SqrtBetween(n, 0, 4000)

\* _apply_vignette: weight = (1 - strength) + strength * clip(1 - distance, 0, 1),
\* distance = sqrt(((x - cx) / cx) ** 2 + ((y - cy) / cy) ** 2), in hundredths
VignetteWeight(yy, xx, h, w, strength) ==
    LET n        == (2 * xx - w) * (2 * xx - w) * h * h + (2 * yy - h) * (2 * yy - h) * w * w
        distance == ISqrt(10000 * n) \div (w * h)
        mask     == Clip(100 - distance, 0, 100)
    IN (100 - strength) + RoundDiv(strength * mask, 100)
Vignetted(a, strength) ==
    IF strength <= 0 THEN a
    ELSE MkArray(a.h, a.w, a.c,
             [p \in Pos(a.h, a.w) |->
                 [c \in 1 .. a.c |->
                     RoundDiv(a.px[p][c] * VignetteWeight(p[1], p[2], a.h, a.w, strength), 100)]])

\* _apply_tone_controls: gamma, contrast, hue and saturation, vignette
ToneControls(image, request) ==
    LET gamma      == Max2(request.gamma, 10)
        corrected  == MapPx(image, LAMBDA v : Pow(Clip(v, 0, Full), 100 \div gamma))
        contrasted == MapPx(corrected, LAMBDA v : CoreContrasted(v, request.contrast))
        hsv        == MapPixels(contrasted, LAMBDA px : HsvPixel(px, request))
    IN Vignetted(hsv, request.vignette_strength)

\* _apply_noise: np.random.uniform draws from the process-wide generator;
\* the outcomes kept here are the extreme and the zero noise fields
NoiseOutcomes(image, level) ==
    IF level <= 0 THEN {image}
    ELSE { MapPx(image, LAMBDA v : Clip(v + d * RoundDiv(level * Full, 100), 0, Full)) :
              d \in {-1, 0, 1} }

DITHER_ALGORITHMS ==
    { "Floyd-Steinberg", "Jarvis-Judice-Ninke", "Sierra", "Row Modulation",
      "Column Modulation", "Dispersed Modulation", "Medium Modulation", "Heavy Modulation",
      "Circuit Modulation", "Tilt Modulation", "Pattern Matrix", "Random Threshold",
      "Blue Noise Cluster", "Dot Screen", "Line Screen", "Radial Rings", "Spiral Waves",
      "Diamond Mesh", "Glitch Strata" }
\* the routine DITHER_ALGORITHMS[request.algorithm] names, for the routines above
PipelineRoutine(alg) ==
    CASE alg \in CoreKernelNames -> "core"
      [] alg = "Row Modulation" -> "row_modulation"
      [] alg = "Column Modulation" -> "column_modulation"

\* image.resize(size, Image.BOX) of an 8-bit image: every target pixel is
\* the mean of the source block it covers
BoxBlock(i, n, m) == (i * n) \div m .. Max2((i * n) \div m, ((i + 1) * n) \div m - 1)
BoxMean(a, rows, cols, c) ==
    LET cells == rows \X cols
        RECURSIVE Sum(_)
        Sum(S) == IF S = {} THEN 0
                  ELSE LET p == CHOOSE q \in S : TRUE
                       IN a.px[p][c] \div FracUnits + Sum(S \ {p})
    IN U8(RoundDiv(Sum(cells), Cardinality(cells)))
BoxResize(a, h2, w2) ==
    MkArray(h2, w2, a.c,
        [p \in Pos(h2, w2) |->
            [c \in 1 .. a.c |-> BoxMean(a, BoxBlock(p[1], a.h, h2), BoxBlock(p[2], a.w, w2), c)]])
\* image.resize(size, Image.NEAREST): the source pixel under the target pixel's centre
NearestResize(a, h2, w2) ==
    MkArray(h2, w2, a.c,
        [p \in Pos(h2, w2) |->
            a.px[<< ((2 * p[1] + 1) * a.h) \div (2 * h2), ((2 * p[2] + 1) * a.w) \div (2 * w2) >>]])

\* the downsampled working_image of _apply_pipeline
WorkingImage(image, preview_downsample) ==
    LET factor == Max2(1, preview_downsample)
    IN IF factor > 1
       THEN BoxResize(image, Max2(1, image.h \div factor), Max2(1, image.w \div factor))
       ELSE image
\* _apply_pixel_size: the reduced image and the size to return to, <<0, 0>> for None
PixelSize(pixel_size) == Max2(1, pixel_size)
Pixelated(image, pixel_size) ==
    IF PixelSize(pixel_size) = 1 THEN image
    ELSE BoxResize(image, Max2(1, image.h \div PixelSize(pixel_size)),
                          Max2(1, image.w \div PixelSize(pixel_size)))
\* the size to return to forgotten
PixelReturnSizeNone(image, pixel_size) == <<0, 0>>
PixelReturnSize(image, pixel_size) ==
    IF PixelSize(pixel_size) = 1 THEN <<0, 0>> ELSE <<image.h, image.w>>

\* a stage done: its buffer, its name and the operations it computed, and
\* the buffers the pipeline keeps for later
StageKept(result, names, nextPc, kept) ==
    /\ heap' = Append(heap, result)
    /\ workRef' = Len(heap) + 1
    /\ stages' = stages \o names
    /\ pc' = nextPc
    /\ reference' = kept
    /\ UNCHANGED << engine, algorithm, serpentine, palette, params, kernel, outRef, resultRef,
                    y, k, visited, prevWork, last, input, rngDraws, runs, raised, converted,
                    procVars, winVars >>
StageDone(result, names, nextPc) == StageKept(result, names, nextPc, reference)

\* working_image = image.resize(...); pixelated_image, pixel_return_size =
\* self._apply_pixel_size(working_image, request.pixel_size); working = base.copy()
PipelinePrepare ==
    /\ pc = "start" /\ engine = "pipeline"
    /\ LET working_image == WorkingImage(heap[1], params.preview_downsample)
           base          == Pixelated(working_image, params.pixel_size)
       IN StageKept(base, <<"_apply_pixel_size">>, "colour",
                    [base |-> base, toned |-> <<>>, size |-> <<heap[1].h, heap[1].w>>,
                     back |-> PixelReturnSize(working_image, params.pixel_size)])

\* working = self._apply_colour_controls(working, request)
PipelineColour ==
    /\ pc = "colour" /\ engine = "pipeline"
    /\ ~PaletteRaises(params)
    /\ StageDone(ColourControls(heap[workRef], params),
                 <<"_apply_colour_controls", "scale">>
                 \o (IF params.colour_mode # "RGB Balance" THEN <<"colour_mode">> ELSE <<>>)
                 \o (IF params.palette_mode # "Disabled" THEN <<"palette_mode">> ELSE <<>>),
                 "tone")

\* self._hex_to_rgb(request.colour_a) raises inside _resolve_palette
PipelineColourRaises ==
    /\ pc = "colour" /\ engine = "pipeline"
    /\ PaletteRaises(params)
    /\ Raise("ValueError")

\* working = self._apply_tone_controls(working, request);
\* toned_reference = working.copy()
PipelineTone ==
    /\ pc = "tone" /\ engine = "pipeline"
    /\ LET toned == ToneControls(heap[workRef], params)
       IN StageKept(toned,
                    <<"_apply_tone_controls", "gamma", "contrast", "hsv">>
                    \o (IF params.vignette_strength > 0 THEN <<"vignette">> ELSE <<>>),
                    "noise", [reference EXCEPT !.toned = toned])

\* working = self._apply_noise(working, request.noise_level)
PipelineNoise ==
    /\ pc = "noise" /\ engine = "pipeline"
    /\ \E noisy \in NoiseOutcomes(heap[workRef], params.noise_level) :
          StageDone(noisy,
                    <<"_apply_noise">>
                    \o (IF params.noise_level > 0 THEN <<"noise">> ELSE <<>>),
                    "lookup")

\* algorithm = DITHER_ALGORITHMS[request.algorithm]: KeyError for a name not in it
PipelineLookupRaises ==
    /\ pc = "lookup" /\ engine = "pipeline"
    /\ algorithm \notin DITHER_ALGORITHMS
    /\ Raise("KeyError")

\* dithered = algorithm(working, request); the post-processing of the
\* dithered buffer follows the routine's return
PipelineDispatch ==
    /\ pc = "lookup" /\ engine = "pipeline"
    /\ algorithm \in DITHER_ALGORITHMS
    /\ engine' = PipelineRoutine(algorithm)
    /\ heap' = << heap[workRef] >>
    /\ input' = heap[workRef]
    /\ workRef' = 0
    /\ stages' = Append(stages, "algorithm")
    /\ pc' = "start"
    /\ UNCHANGED << algorithm, serpentine, palette, params, kernel, outRef, resultRef,
                    y, k, visited, prevWork, last, rngDraws, runs, raised, reference, converted, procVars, winVars >>

\* ------------------------------------------ ImageProcessor._apply_post_processing
\* the routine that ran was called by _apply_pipeline
InPipeline == stages # <<>> /\ stages[1] = "_apply_pixel_size"
ZipPx(a, b, F(_, _)) ==
    MkArray(a.h, a.w, a.c,
        [p \in Pos(a.h, a.w) |-> [c \in 1 .. a.c |-> F(a.px[p][c], b.px[p][c])]])
\* the least and the greatest sample of a buffer
Samples(a) == { a.px[p][c] : p \in Pos(a.h, a.w), c \in 1 .. a.c }
Least(a) == CHOOSE v \in Samples(a) : \A u \in Samples(a) : v <= u
Greatest(a) == CHOOSE v \in Samples(a) : \A u \in Samples(a) : u <= v
\* the record of one conversion to 8-bit: where, and the range converted
Conversion(at, a) == << [at |-> at, lo |-> Least(a), hi |-> Greatest(a)] >>
\* a.astype(np.uint8): the fraction is dropped and the integer kept modulo 256
AsUint8(a) == MapPx(a, LAMBDA v : (v \div FracUnits) % 256)
\* np.asarray(pil_img, dtype=np.float32)
AsFloat32(a) == MapPx(a, LAMBDA v : U8(v))

\* mask = np.clip((luminance - 160.0) / 95.0, 0.0, 1.0) ** 1.2, in tenths
GlowMask(px) ==
    LET x == Clip(((Luminance(px) - U8(160)) * 10) \div U8(95), 0, 10)
    IN CHOOSE m \in 0 .. 10 :
           /\ m * m * m * m * m * 10 <= x * x * x * x * x * x
           /\ \A n \in 0 .. 10 : n * n * n * n * n * 10 <= x * x * x * x * x * x => n <= m
\* np.clip(reference * mask[..., None], 0, 255), the buffer _apply_glow converts
Highlight(toned_reference) ==
    MapPixels(toned_reference,
              LAMBDA px : VClip([c \in DOMAIN px |-> (px[c] * GlowMask(px)) \div 10], 0, Full))
\* strength = np.clip(radius / 12.0, 0.15, 1.2), in hundredths
GlowStrength(radius) == Clip(RoundDiv(100 * Max2(1, radius), 12), 15, 120)
\* the sum of image and glow without its clip
GlowedUnclipped(image, glow, strength) ==
    ZipPx(image, glow, LAMBDA v, g : v + RoundDiv(g * strength, 100))
\* return np.clip(image + glow * strength, 0, 255)
Glowed(image, glow, strength) ==
    ClipArray(ZipPx(image, glow, LAMBDA v, g : v + RoundDiv(g * strength, 100)))
\* (np.round(result / step) * step) with step = 255.0 / (posterize_levels - 1)
Posterized(result, posterize_levels) ==
    MapPx(result, LAMBDA v : RoundDiv(RoundHalfEven(v * (posterize_levels - 1), Full) * Full,
                                      posterize_levels - 1))
\* np.clip(result + edges_arr * request.edge_boost * 0.5, 0, 255)
EdgeBoosted(result, edges_arr, edge_boost) ==
    ClipArray(ZipPx(result, edges_arr, LAMBDA v, e : v + RoundDiv(e * edge_boost, 200)))
\* 255.0 - result
Inverted(result) == MapPx(result, LAMBDA v : Full - v)
\* result * (1.0 - blend) + toned_reference * blend, blend clipped to 0..1
Blended(result, toned_reference, blend_original) ==
    LET blend == Clip(blend_original, 0, 100)
    IN ZipPx(result, toned_reference, LAMBDA v, t : RoundDiv(v * (100 - blend) + t * blend, 100))

\* processed = self._apply_post_processing(dithered, toned_reference, base,
\* request); GaussianBlur, ImageEnhance.Sharpness and FIND_EDGES are Pillow's:
\* each returns either its input or one of the other 8-bit images of that size
PipelinePost ==
    /\ pc = "done" /\ InPipeline /\ resultRef # 0
    /\ LET request   == params
           result0   == ClipArray(heap[resultRef])
           highlight == Highlight(reference.toned)
           original  == reference.base
       IN \E blurred \in Filtered(AsUint8(highlight)) :
          LET result1 == IF request.glow_radius > 0
                         THEN Glowed(result0, AsFloat32(blurred), GlowStrength(request.glow_radius))
                         ELSE result0
          IN \E enhanced \in Filtered(AsUint8(result1)) :
             LET result2 == IF request.sharpen_amount > 0 THEN AsFloat32(enhanced) ELSE result1
                 result3 == IF request.posterize_levels > 1
                            THEN Posterized(result2, request.posterize_levels) ELSE result2
             IN \E edges \in { ZerosOf(original), AsUint8(original) } :
                LET result4 == IF request.edge_boost > 0
                               THEN EdgeBoosted(result3, AsFloat32(edges), request.edge_boost)
                               ELSE result3
                    result5 == IF request.invert_output THEN Inverted(result4) ELSE result4
                    result6 == IF request.blend_original > 0
                               THEN Blended(result5, reference.toned, request.blend_original)
                               ELSE result5
                    final   == ClipArray(result6)
                IN /\ heap' = Append(heap, AsFloat32(AsUint8(final)))
                   /\ resultRef' = Len(heap) + 1
                   /\ converted' =
                          converted
                          \o (IF request.glow_radius > 0 THEN Conversion("glow", highlight) ELSE <<>>)
                          \o (IF request.sharpen_amount > 0 THEN Conversion("sharpen", result1) ELSE <<>>)
                          \o (IF request.edge_boost > 0 THEN Conversion("edge_boost", original) ELSE <<>>)
                          \o Conversion("output", final)
    /\ stages' = Append(stages, "_apply_post_processing")
    /\ pc' = "post"
    /\ UNCHANGED << engine, algorithm, serpentine, palette, params, kernel, workRef, outRef,
                    y, k, visited, prevWork, last, input, rngDraws, runs, raised, reference,
                    procVars, winVars >>

\* output = Image.fromarray(processed), resized back to pixel_return_size and
\* to original_size; return output
PipelineResize ==
    /\ pc = "post" /\ InPipeline
    /\ LET processed == heap[resultRef]
           restored  == IF reference.back # <<0, 0>>
                        THEN NearestResize(processed, reference.back[1], reference.back[2])
                        ELSE processed
           output    == IF Max2(1, params.preview_downsample) > 1
                        THEN NearestResize(restored, reference.size[1], reference.size[2])
                        ELSE restored
       IN /\ heap' = Append(heap, output)
          /\ resultRef' = Len(heap) + 1
    /\ pc' = "rendered"
    /\ UNCHANGED << engine, algorithm, serpentine, palette, params, kernel, workRef, outRef,
                    y, k, visited, prevWork, last, input, rngDraws, runs, raised, stages,
                    reference, converted, procVars, winVars >>

\* text of a colour field as a sequence of characters
White6 == << "#", "f", "f", "f", "f", "f", "f" >>
Black6 == << "#", "0", "0", "0", "0", "0", "0" >>
White3 == << "#", "f", "f", "f" >>
\* ProcessingRequest at the neutral values, and requests that move one control
NeutralRequest ==
    [threshold |-> 127, amplitude |-> 100, period |-> 2, numba |-> FALSE, pixel_size |-> 1,
     preview_downsample |-> 1, glow_radius |-> 0, sharpen_amount |-> 0,
     posterize_levels |-> 0, edge_boost |-> 0, invert_output |-> FALSE, blend_original |-> 0,
     red_scale |-> 100, green_scale |-> 100, blue_scale |-> 100,
     colour_mode |-> "RGB Balance", palette_mode |-> "Disabled",
     colour_a |-> Black6, colour_b |-> White6,
     gamma |-> 100, contrast |-> 100, saturation |-> 100, hue_shift |-> 0,
     vignette_strength |-> 0, noise_level |-> 0]
PipelineRequests ==
    { NeutralRequest,
      [NeutralRequest EXCEPT !.red_scale = 50],
      [NeutralRequest EXCEPT !.blue_scale = 150],
      [NeutralRequest EXCEPT !.colour_mode = "Mono Luma"],
      [NeutralRequest EXCEPT !.colour_mode = "Indexed 4"],
      [NeutralRequest EXCEPT !.colour_mode = "Indexed 8"],
      [NeutralRequest EXCEPT !.palette_mode = "Custom Two-Tone"],
      [NeutralRequest EXCEPT !.palette_mode = "Custom Two-Tone", !.colour_b = White3],
      [NeutralRequest EXCEPT !.gamma = 50],
      [NeutralRequest EXCEPT !.contrast = 150],
      [NeutralRequest EXCEPT !.saturation = 0],
      [NeutralRequest EXCEPT !.saturation = 200],
      [NeutralRequest EXCEPT !.hue_shift = 120],
      [NeutralRequest EXCEPT !.hue_shift = -60],
      [NeutralRequest EXCEPT !.vignette_strength = 50],
      [NeutralRequest EXCEPT !.noise_level = 10],
      [NeutralRequest EXCEPT !.glow_radius = 1],
      [NeutralRequest EXCEPT !.glow_radius = 24, !.sharpen_amount = 50],
      [NeutralRequest EXCEPT !.sharpen_amount = 100],
      [NeutralRequest EXCEPT !.posterize_levels = 3],
      [NeutralRequest EXCEPT !.edge_boost = 100],
      [NeutralRequest EXCEPT !.invert_output = TRUE],
      [NeutralRequest EXCEPT !.blend_original = 50, !.contrast = 150],
      [NeutralRequest EXCEPT !.glow_radius = 6, !.edge_boost = 200, !.invert_output = TRUE,
                             !.blend_original = 150, !.posterize_levels = 4] }
\* sizes: every source size with every downsample factor and pixel-block size
SizeRequests ==
    { [NeutralRequest EXCEPT !.preview_downsample = f, !.pixel_size = ps] :
          f \in 0 .. MaxFactor, ps \in 0 .. MaxFactor }
PipelineAlgorithms == {"Floyd-Steinberg", "Row Modulation", "Atkinson", "Unknown"}
InitPipeline ==
    \E alg \in PipelineAlgorithms, req \in PipelineRequests,
       img \in { ImageOf(kind, 2, 2) : kind \in 1 .. NumImages } :
        EngineInit("pipeline", alg, FALSE, <<>>, req, img)
InitPipelineSizes ==
    \E req \in SizeRequests, kind \in 1 .. NumImages, h \in 1 .. MaxSide, w \in 1 .. MaxSide :
        EngineInit("pipeline", "Row Modulation", FALSE, <<>>, req, ImageOf(kind, h, w))

Algorithms == ToolKernelNames \cup {"Unknown"}

InitED ==
    \E alg \in Algorithms, serp \in BOOLEAN, pal \in EnginePalettes, img \in Images :
        EngineInit("ed", alg, serp, pal, NoParams, img)

InitGray ==
    \E alg \in Algorithms, serp \in BOOLEAN, img \in AlphaPlanes :
        EngineInit("gray", alg, serp, <<>>, NoParams, img)

InitOrdered ==
    \E alg \in OrderedNames, pal \in EnginePalettes, img \in Images :
        EngineInit("ordered", alg, FALSE, pal, NoParams, img)

InitRandom ==
    \E pal \in EnginePalettes, img \in Images :
        EngineInit("random", "Random", FALSE, pal, NoParams, img)

InitCore ==
    \E alg \in CoreKernelNames, prm \in Requests, img \in Images :
        EngineInit("core", alg, FALSE, <<>>, prm, img)

InitNumba ==
    \E alg \in CoreKernelNames, thr \in {127, 200}, nb \in BOOLEAN, img \in Images :
        EngineInit("numba", alg, FALSE, <<>>,
                   [threshold |-> thr, amplitude |-> 100, period |-> 2, numba |-> nb], img)

InitPattern ==
    \E eng \in {"row_modulation", "column_modulation"}, thr \in {127, 200},
       amp \in {0, 50}, per \in {2, 3}, img \in Images :
        EngineInit(eng, "Row Modulation", FALSE, <<>>,
                   [threshold |-> thr, amplitude |-> amp, period |-> per, numba |-> FALSE], img)

\* the routines called with a palette of no colours, on images that may have no pixels
EmptyImages == { ImageOf(1, 0, 0), ImageOf(1, 0, 2), ImageOf(1, 2, 0) }
InitInvalid ==
    \E eng \in {"ed", "ordered", "random"}, img \in Images \cup EmptyImages :
        EngineInit(eng, IF eng = "ed" THEN "Floyd-Steinberg"
                        ELSE IF eng = "ordered" THEN "Bayer 2x2" ELSE "Random",
                   FALSE, <<>>, NoParams, img)

InitMap ==
    \E pal \in EnginePalettes, img \in Images :
        EngineInit("map", "", FALSE, pal, NoParams, img)

Init ==
    \/ InitED
    \/ InitGray
    \/ InitOrdered
    \/ InitRandom
    \/ InitCore
    \/ InitNumba
    \/ InitPattern
    \/ InitMap
    \/ InitInvalid
    \/ InitPalette
    \/ InitDither
    \/ InitPipeline
    \/ InitPipelineSizes

Next ==
    \/ EDBegin
    \/ EDPixel
    \/ EDReturn
    \/ GrayBegin
    \/ GrayPixel
    \/ GrayReturn
    \/ OrderedBegin
    \/ OrderedPixel
    \/ OrderedReturn
    \/ RandomBegin
    \/ RandomPixel
    \/ RandomReturn
    \/ ArgminRaises
    \/ RandomDivides
    \/ CoreBegin
    \/ CorePixel
    \/ CoreReturn
    \/ NumbaMissing
    \/ NumbaBegin
    \/ NumbaPixel
    \/ NumbaReturn
    \/ row_modulation
    \/ column_modulation
    \/ MapToPalette
    \/ generate_palette
    \/ apply_adjustments
    \/ DitherPalette
    \/ DitherDispatch
    \/ PipelinePrepare
    \/ PipelineColour
    \/ PipelineColourRaises
    \/ PipelineTone
    \/ PipelineNoise
    \/ PipelineLookupRaises
    \/ PipelineDispatch
    \/ PipelinePost
    \/ PipelineResize

Spec == Init /\ [][Next]_vars

\* ------------------------------------------- test_serpentine_toggle_changes_output
\* a second render of the same image with settings.serpentine flipped; the
\* first result stays alive
ToggleSerpentine ==
    /\ pc = "done" /\ engine = "ed" /\ runs = <<>>
    /\ runs' = <<resultRef>>
    /\ serpentine' = ~serpentine
    /\ pc' = "start"
    /\ workRef' = 0 /\ outRef' = 0 /\ resultRef' = 0
    /\ y' = 0 /\ k' = 0
    /\ visited' = <<>> /\ prevWork' = <<>> /\ last' = NoStep
    /\ UNCHANGED << engine, algorithm, palette, params, kernel, heap, input, rngDraws, raised, stages, reference, converted, procVars, winVars >>

\* horizontal gradients, Floyd-Steinberg, the black/white palette, serpentine first
Gradients == { ImageOf(2, hh, ww) : hh \in 2 .. MaxGradH, ww \in 1 .. MaxGradW }
InitToggle ==
    \E img \in Gradients : EngineInit("ed", "Floyd-Steinberg", TRUE, BlackWhite, NoParams, img)

NextToggle ==
    \/ EDBegin
    \/ EDPixel
    \/ EDReturn
    \/ ToggleSerpentine

SpecToggle == InitToggle /\ [][NextToggle]_vars

\* ------------------------------------------- two Random renders on one engine
\* a second _random_dither of the same image and palette on the same
\* DitheringEngine: self.random_state goes on from where the first call left
\* it; the first result stays alive
RandomRerun ==
    /\ pc = "done" /\ engine = "random" /\ runs = <<>>
    /\ runs' = <<resultRef>>
    /\ pc' = "start"
    /\ workRef' = 0 /\ outRef' = 0 /\ resultRef' = 0
    /\ y' = 0 /\ k' = 0
    /\ visited' = <<>> /\ prevWork' = <<>> /\ last' = NoStep
    /\ UNCHANGED << engine, algorithm, serpentine, palette, params, kernel, heap, input,
                    rngDraws, raised, stages, reference, converted, procVars, winVars >>

InitRerun ==
    \E pal \in EnginePalettes, img \in Images :
        EngineInit("random", "Random", FALSE, pal, NoParams, img)

NextRerun ==
    \/ RandomBegin
    \/ RandomPixel
    \/ RandomReturn
    \/ RandomRerun

SpecRerun == InitRerun /\ [][NextRerun]_vars

\* ------------------------------------- the accelerated routine after the pure one
\* error_diffusion_accelerated(image, threshold, diffusion_matrix) on the image
\* the pure _error_diffusion has just rendered, with the threshold the pure
\* routine used (its clipped, strength-shifted threshold) and the same matrix;
\* the pure routine's result stays alive
AcceleratedTwin ==
    /\ pc = "done" /\ engine = "core" /\ runs = <<>>
    /\ EffectiveThreshold(params) % FracUnits = 0
    /\ runs' = <<resultRef>>
    /\ engine' = "numba"
    /\ params' = [params EXCEPT !.threshold = EffectiveThreshold(params) \div FracUnits,
                                !.numba = TRUE]
    /\ pc' = "start"
    /\ workRef' = 0 /\ outRef' = 0 /\ resultRef' = 0
    /\ y' = 0 /\ k' = 0
    /\ visited' = <<>> /\ prevWork' = <<>> /\ last' = NoStep
    /\ UNCHANGED << algorithm, serpentine, palette, kernel, heap, input,
                    rngDraws, raised, stages, reference, converted, procVars, winVars >>

InitTwin ==
    \E alg \in CoreKernelNames, prm \in Requests, img \in Images :
        EngineInit("core", alg, FALSE, <<>>, prm, img)

NextTwin ==
    \/ CoreBegin
    \/ CorePixel
    \/ CoreReturn
    \/ AcceleratedTwin
    \/ NumbaBegin
    \/ NumbaPixel
    \/ NumbaReturn

SpecTwin == InitTwin /\ [][NextTwin]_vars

\* ----------------------------------------------- error diffusion of a mid-grey square
\* a square of constant 128 through Floyd-Steinberg: the tool's routine with
\* the black/white palette, the core routine and its accelerated twin with
\* request.threshold = 127
MidGrey == ImageOf(1, MidGreySide, MidGreySide)
InitMidGrey ==
    \/ \E serp \in BOOLEAN :
          EngineInit("ed", "Floyd-Steinberg", serp, BlackWhite, NoParams, MidGrey)
    \/ \E prm \in { r \in Requests : r.threshold = 127 } :
          EngineInit("core", "Floyd-Steinberg", FALSE, <<>>, prm, MidGrey)
    \/ EngineInit("numba", "Floyd-Steinberg", FALSE, <<>>,
                  [threshold |-> 127, amplitude |-> 100, period |-> 2, numba |-> TRUE], MidGrey)

NextMidGrey ==
    \/ EDBegin
    \/ EDPixel
    \/ EDReturn
    \/ CoreBegin
    \/ CorePixel
    \/ CoreReturn
    \/ NumbaBegin
    \/ NumbaPixel
    \/ NumbaReturn

SpecMidGrey == InitMidGrey /\ [][NextMidGrey]_vars

\* --------------------------------------------------- ImageProcessor.load_image
\* self._source_image = image
LoadSource ==
    /\ ui = "idle" /\ loads < MaxLoads
    /\ sourceImage' = loads + 1
    /\ loads' = loads + 1
    /\ ui' = "preview"
    /\ UNCHANGED << previewSource, latestRequest, requestCounter, previewCache, previewRequest,
                    fullResCache, fullResRequest, pool, tasks, enqueued, tokens, asked, lastEmit,
                    lastStore, engineVars, winVars >>

\* self._preview_source = preview
LoadPreview ==
    /\ ui = "preview"
    /\ previewSource' = sourceImage
    /\ ui' = "clear"
    /\ UNCHANGED << sourceImage, latestRequest, requestCounter, previewCache, previewRequest,
                    fullResCache, fullResRequest, pool, tasks, loads, enqueued, tokens, asked,
                    lastEmit, lastStore, engineVars, winVars >>

\* the two caches and the two cached requests set to None
LoadClear ==
    /\ ui = "clear"
    /\ previewCache' = NoImage
    /\ fullResCache' = NoImage
    /\ fullResRequest' = NoRequest
    /\ previewRequest' = NoRequest
    /\ ui' = "reset"
    /\ UNCHANGED << sourceImage, previewSource, latestRequest, requestCounter, pool, tasks,
                    loads, enqueued, tokens, asked, lastEmit, lastStore, engineVars, winVars >>

\* with self._request_lock: self._latest_request = None; self._request_counter = 0
LoadReset ==
    /\ ui = "reset"
    /\ latestRequest' = NoRequest
    /\ requestCounter' = 0
    /\ ui' = "idle"
    /\ UNCHANGED << sourceImage, previewSource, previewCache, previewRequest, fullResCache,
                    fullResRequest, pool, tasks, loads, enqueued, tokens, asked, lastEmit, lastStore,
                    engineVars, winVars >>

\* ------------------------------------------------------ ImageProcessor.enqueue
\* if not self._source_image: return
EnqueueNoImage ==
    /\ ui = "idle" /\ sourceImage = 0
    /\ UNCHANGED vars

\* with the lock: latest request, counter += 1, token; then submit
enqueue ==
    /\ ui = "idle" /\ sourceImage # 0 /\ enqueued < MaxEnqueues
    /\ \E request \in ProcRequests :
          /\ latestRequest' = request
          /\ tasks' = Append(tasks, [request |-> request, token |-> requestCounter + 1,
                                     seq |-> enqueued + 1])
          /\ asked' = Append(asked, request)
    /\ requestCounter' = requestCounter + 1
    /\ tokens' = Append(tokens, requestCounter + 1)
    /\ enqueued' = enqueued + 1
    /\ UNCHANGED << sourceImage, previewSource, previewCache, previewRequest, fullResCache,
                    fullResRequest, pool, ui, loads, lastEmit, lastStore, engineVars, winVars >>

\* --------------------------------------------- ImageProcessor._process_request
\* the source image the last completed load_image installed, 0 while a
\* load_image is under way
Loaded == IF ui = "idle" THEN sourceImage ELSE 0
\* what a worker step leaves alone besides the fields it names
WorkerStep(w, nextPc) ==
    /\ pool' = [pool EXCEPT ![w].pc = nextPc]
    /\ UNCHANGED << sourceImage, previewSource, latestRequest, requestCounter, tasks, ui,
                    loads, enqueued, tokens, asked, engineVars, winVars >>
WorkerDone(w) ==
    /\ pool' = [pool EXCEPT ![w] = IdleWorker]
    /\ UNCHANGED << sourceImage, previewSource, latestRequest, requestCounter, tasks, ui,
                    loads, enqueued, tokens, asked, engineVars, winVars >>
CachesUnchanged ==
    UNCHANGED << previewCache, previewRequest, fullResCache, fullResRequest, lastStore >>

\* a free worker thread of the pool takes the oldest submitted call; the
\* threads are alike, the first free one is taken
WorkerTake(w) ==
    /\ pool[w].pc = "idle" /\ tasks # <<>>
    /\ \A v \in Workers : v < w => pool[v].pc # "idle"
    /\ pool' = [pool EXCEPT ![w] = [pc |-> "start", task |-> Head(tasks), result |-> NoImage]]
    /\ tasks' = Tail(tasks)
    /\ UNCHANGED << sourceImage, previewSource, latestRequest, requestCounter, previewCache,
                    previewRequest, fullResCache, fullResRequest, ui, loads, enqueued, tokens, asked,
                    lastEmit, lastStore, engineVars, winVars >>

\* the checks before the first lock: no image, a cached preview of the same
\* request, a cached full-resolution render of the same request
WorkerStart(w) ==
    /\ pool[w].pc = "start"
    /\ LET request == pool[w].task.request
       IN IF sourceImage = 0
          THEN WorkerDone(w)
          ELSE IF ~request.full_resolution /\ previewCache # NoImage
                  /\ previewRequest = request
          THEN WorkerStep(w, "hit")
          ELSE IF request.full_resolution /\ fullResCache # NoImage
                  /\ fullResRequest = request
          THEN WorkerStep(w, "hit")
          ELSE IF ~request.full_resolution
          THEN WorkerStep(w, "check1")
          ELSE WorkerStep(w, "render")
    /\ CachesUnchanged /\ UNCHANGED lastEmit

\* self.processed.emit(self._preview_cache, False), or the full-resolution cache
WorkerHit(w) ==
    /\ pool[w].pc = "hit"
    /\ LET full == pool[w].task.request.full_resolution
       IN lastEmit' = [by |-> pool[w].task.seq,
                       result |-> IF full THEN fullResCache ELSE previewCache,
                       full |-> full, newest |-> enqueued, loaded |-> Loaded]
    /\ WorkerDone(w)
    /\ CachesUnchanged

\* with self._request_lock: if token != self._request_counter or
\* self._latest_request != request: return
WorkerCheck(w) ==
    /\ pool[w].pc \in {"check1", "check2"}
    /\ IF pool[w].task.token # requestCounter \/ latestRequest # pool[w].task.request
       THEN WorkerDone(w)
       ELSE WorkerStep(w, IF pool[w].pc = "check1" THEN "render" ELSE "store")
    /\ CachesUnchanged /\ UNCHANGED lastEmit

\* source = ...; processed = self._apply_pipeline(source, request, ...)
WorkerRender(w) ==
    /\ pool[w].pc = "render"
    /\ LET request == pool[w].task.request
           source  == IF request.full_resolution THEN sourceImage
                      ELSE IF previewSource # 0 THEN previewSource ELSE sourceImage
       IN pool' = [pool EXCEPT ![w].pc = IF request.full_resolution THEN "store" ELSE "check2",
                               ![w].result = [request |-> request, source |-> source,
                                              by |-> pool[w].task.seq]]
    /\ UNCHANGED << sourceImage, previewSource, latestRequest, requestCounter, tasks, ui,
                    loads, enqueued, tokens, asked, lastEmit, engineVars, winVars >>
    /\ CachesUnchanged

\* self._full_res_cache = qimage, or self._preview_cache = qimage
WorkerStore(w) ==
    /\ pool[w].pc = "store"
    /\ IF pool[w].task.request.full_resolution
       THEN /\ fullResCache' = pool[w].result
            /\ UNCHANGED << previewCache, lastStore >>
       ELSE /\ previewCache' = pool[w].result
            /\ lastStore' = [by |-> pool[w].task.seq, newest |-> enqueued]
            /\ UNCHANGED fullResCache
    /\ WorkerStep(w, "storeRequest")
    /\ UNCHANGED << previewRequest, fullResRequest, lastEmit >>

\* self._full_res_request = request, or self._preview_request = request
WorkerStoreRequest(w) ==
    /\ pool[w].pc = "storeRequest"
    /\ IF pool[w].task.request.full_resolution
       THEN /\ fullResRequest' = pool[w].task.request
            /\ UNCHANGED previewRequest
       ELSE /\ previewRequest' = pool[w].task.request
            /\ UNCHANGED fullResRequest
    /\ WorkerStep(w, "emit")
    /\ UNCHANGED << previewCache, fullResCache, lastStore, lastEmit >>

\* self.processed.emit(qimage, request.full_resolution)
WorkerEmit(w) ==
    /\ pool[w].pc = "emit"
    /\ lastEmit' = [by |-> pool[w].task.seq, result |-> pool[w].result,
                    full |-> pool[w].task.request.full_resolution, newest |-> enqueued,
                    loaded |-> Loaded]
    /\ WorkerDone(w)
    /\ CachesUnchanged

InitProcessor == EngineInit("processor", "", FALSE, <<>>, NoParams, ImageOf(1, 1, 1))

NextProcessor ==
    \/ LoadSource
    \/ LoadPreview
    \/ LoadClear
    \/ LoadReset
    \/ EnqueueNoImage
    \/ enqueue
    \/ \E w \in Workers : WorkerTake(w)
    \/ \E w \in Workers : WorkerStart(w)
    \/ \E w \in Workers : WorkerHit(w)
    \/ \E w \in Workers : WorkerCheck(w)
    \/ \E w \in Workers : WorkerRender(w)
    \/ \E w \in Workers : WorkerStore(w)
    \/ \E w \in Workers : WorkerStoreRequest(w)
    \/ \E w \in Workers : WorkerEmit(w)

SpecProcessor == InitProcessor /\ [][NextProcessor]_vars

\* the pool runs every submitted call: a thread that is free takes the oldest
\* call, and a thread inside _process_request goes on to its next statement
\* (the lock is held for a few assignments only and the pipeline returns)
WorkerRuns(w) ==
    \/ WorkerTake(w)
    \/ WorkerStart(w)
    \/ WorkerHit(w)
    \/ WorkerCheck(w)
    \/ WorkerRender(w)
    \/ WorkerStore(w)
    \/ WorkerStoreRequest(w)
    \/ WorkerEmit(w)
\* load_image, once called, runs to its end
LoadRuns == LoadPreview \/ LoadClear \/ LoadReset
\* one image loaded and previews asked for: the session of a user who opens
\* a picture and moves the controls
FirstLoad == loads = 0 /\ LoadSource
PreviewEnqueue == enqueue /\ ~latestRequest'.full_resolution
NextPreviews ==
    \/ FirstLoad
    \/ LoadPreview
    \/ LoadClear
    \/ LoadReset
    \/ PreviewEnqueue
    \/ \E w \in Workers : WorkerTake(w)
    \/ \E w \in Workers : WorkerStart(w)
    \/ \E w \in Workers : WorkerHit(w)
    \/ \E w \in Workers : WorkerCheck(w)
    \/ \E w \in Workers : WorkerRender(w)
    \/ \E w \in Workers : WorkerStore(w)
    \/ \E w \in Workers : WorkerStoreRequest(w)
    \/ \E w \in Workers : WorkerEmit(w)
SpecPreviews ==
    /\ InitProcessor /\ [][NextPreviews]_vars
    /\ \A w \in Workers : WF_vars(WorkerRuns(w))
    /\ WF_vars(LoadRuns)

\* ------------------------------------------------- dithering_tool.MainWindow
\* MainWindow.load_image: self.original_image = img; the update it schedules starts a
\* task when its timer fires
load_image ==
    /\ original_image < MaxLoads
    /\ original_image' = original_image + 1
    /\ message' = "Loaded"
    /\ UNCHANGED << task_counter, active_task_id, current_task, last_result, dithered,
                    running, signals, delivered, engineVars, procVars >>

\* start_dither_task: if self.original_image is None: return
StartNoImage ==
    /\ original_image = 0
    /\ UNCHANGED vars

\* start_dither_task: the counter goes up, the new task is the active one and
\* is handed to the thread pool
start_dither_task ==
    /\ original_image # 0 /\ task_counter < MaxTasks
    /\ task_counter' = task_counter + 1
    /\ active_task_id' = task_counter + 1
    /\ current_task' = task_counter + 1
    /\ running' = running \cup { [task_id |-> task_counter + 1, image |-> original_image] }
    /\ message' = "Processing"
    /\ UNCHANGED << original_image, last_result, dithered, signals, delivered,
                    engineVars, procVars >>

\* DitherTask.run on a pool thread: self.signals.finished.emit(self.task_id,
\* result), or failed.emit(self.task_id, str(exc)) when engine.dither raised;
\* the signal object lives in the window's thread, the call of the slot is queued
TaskRun(slot) ==
    /\ \E task \in running :
          /\ running' = running \ {task}
          /\ signals' = signals \cup { [task_id |-> task.task_id, slot |-> slot] }
    /\ UNCHANGED << original_image, task_counter, active_task_id, current_task, last_result,
                    dithered, message, delivered, engineVars, procVars >>
TaskFinished == TaskRun("_dither_finished")
TaskFailed == TaskRun("_dither_failed")

\* a slot whose task is always taken for the active one
StaleNever(task_id) == FALSE
\* if task_id != self.active_task_id: return
Stale(task_id) == task_id # active_task_id

\* the queued call of a slot is made in the window's thread
SlotCalled(sig) ==
    /\ sig \in signals
    /\ signals' = signals \ {sig}
    /\ delivered' = [task_id |-> sig.task_id, slot |-> sig.slot, active |-> active_task_id,
                     result |-> last_result, dithered |-> dithered]
    /\ UNCHANGED << original_image, task_counter, active_task_id, current_task, running,
                    engineVars, procVars >>

\* _dither_finished(task_id, result)
dither_finished ==
    \E sig \in signals :
        /\ sig.slot = "_dither_finished"
        /\ SlotCalled(sig)
        /\ IF Stale(sig.task_id)
           THEN UNCHANGED << last_result, dithered, message >>
           ELSE /\ last_result' = [task_id |-> sig.task_id, newest |-> task_counter]
                /\ dithered' = sig.task_id
                /\ message' = "Dithering complete"

\* _dither_failed(task_id, message)
dither_failed ==
    \E sig \in signals :
        /\ sig.slot = "_dither_failed"
        /\ SlotCalled(sig)
        /\ IF Stale(sig.task_id)
           THEN UNCHANGED << last_result, dithered, message >>
           ELSE /\ message' = "Error during dithering"
                /\ UNCHANGED << last_result, dithered >>

InitWindow == EngineInit("window", "", FALSE, <<>>, NoParams, ImageOf(1, 1, 1))

NextWindow ==
    \/ load_image
    \/ StartNoImage
    \/ start_dither_task
    \/ TaskFinished
    \/ TaskFailed
    \/ dither_finished
    \/ dither_failed

SpecWindow == InitWindow /\ [][NextWindow]_vars

\* ----------------------------------------------------- calls of _hex_to_rgb
\* one call of a colour parser: the colour lands in palette, or the call raises
HexCall(eng, rgb) ==
    /\ pc = "start" /\ engine = eng
    /\ IF rgb = Invalid
       THEN /\ pc' = "error" /\ raised' = "ValueError" /\ palette' = palette
       ELSE /\ pc' = "done" /\ raised' = raised /\ palette' = <<rgb>>
    /\ UNCHANGED << engine, algorithm, serpentine, params, kernel, heap, workRef, outRef,
                    resultRef, y, k, visited, prevWork, last, input, rngDraws, runs, stages, reference, converted, procVars, winVars >>
core_hex_to_rgb == HexCall("core_hex_to_rgb", CoreHexToRgb(params.value))
tool_hex_to_rgb == HexCall("tool_hex_to_rgb", ToolHexToRgb(params.value))

\* colour texts: blanks and '#' in front, up to MaxHexLen characters, a blank behind
RECURSIVE Texts(_)
Texts(n) ==
    IF n = 0 THEN { <<>> }
    ELSE LET shorter == Texts(n - 1)
         IN shorter \cup { Append(t, ch) : t \in { u \in shorter : Len(u) = n - 1 },
                                           ch \in {"f", "g", "+"} }
ColourTexts ==
    { pre \o body \o post : pre \in { <<>>, <<"#">>, <<"#", "#">>, <<" ", "#">> },
                            body \in Texts(MaxHexLen),
                            post \in { <<>>, <<" ">> } }
InitHex ==
    \E eng \in {"core_hex_to_rgb", "tool_hex_to_rgb"}, text \in ColourTexts :
        EngineInit(eng, "", FALSE, <<>>, [value |-> text], ImageOf(1, 1, 1))
NextHex ==
    \/ core_hex_to_rgb
    \/ tool_hex_to_rgb
SpecHex == InitHex /\ [][NextHex]_vars

\* ==================================================================== claims
Work == heap[workRef].px
ImgH == input.h
ImgW == input.w
Stepped == pc \in {"loop", "done"} /\ last.y >= 0
DiffusionEngines == {"ed", "gray", "core", "numba"}
InPlaceEngines == {"core", "numba"}
Diffusing == engine \in DiffusionEngines /\ Stepped
\* the work buffer of the last step before any share was added: the in-place
\* routines have stored the quantized value at the current pixel
Base ==
    IF engine \in InPlaceEngines
    THEN [prevWork EXCEPT ![<<last.y, last.x>>] = last.new]
    ELSE prevWork
VisitedSet == { visited[i] : i \in 1 .. Len(visited) }
KernelTarget(i) == <<last.y + kernel[i].dy, last.x + kernel[i].dx * last.dir>>
OnImage(p) == p \in Pos(ImgH, ImgW)
ZeroVec(n) == [c \in 1 .. n |-> 0]

\* C1: causal diffusion. After every pixel step of error diffusion, no pixel
\* visited so far (the current one included) has received error: its work
\* value is what it was, and every in-bounds kernel target is unvisited.
CausalDiffusion ==
    Diffusing =>
        /\ \A p \in VisitedSet : Work[p] = Base[p]
        /\ \A i \in 1 .. Len(kernel) : KernelTarget(i) \notin VisitedSet

\* a right-to-left row of a serpentine scan in which error was spread with
\* visited pixels to the right of the current one
CausalWitness ==
    /\ Diffusing /\ engine = "ed" /\ serpentine
    /\ last.y = 1 /\ last.x < ImgW - 1 /\ last.x > 0
    /\ Work # prevWork

\* C3: serpentine scan order. The n-th pixel visited is row n div w, at column
\* n mod w counted from the left, or from the right on odd rows under
\* serpentine; the pixels whose work value changes lie at the kernel offsets,
\* column offsets negated exactly on those reversed rows; at the end every
\* pixel has been visited exactly once.
ScanColumn(n) ==
    IF serpentine /\ (n \div ImgW) % 2 = 1 THEN ImgW - 1 - (n % ImgW) ELSE n % ImgW
MirroredDx(dx) == IF serpentine /\ last.y % 2 = 1 THEN 0 - dx ELSE dx
SerpentineScanOrder ==
    engine \in {"ed", "gray"} =>
        /\ \A n \in 1 .. Len(visited) : visited[n] = <<(n - 1) \div ImgW, ScanColumn(n - 1)>>
        /\ Stepped =>
              \A p \in Pos(ImgH, ImgW) :
                  Work[p] # prevWork[p] =>
                      \E i \in 1 .. Len(kernel) :
                          p = <<last.y + kernel[i].dy, last.x + MirroredDx(kernel[i].dx)>>
        /\ pc = "done" =>
              /\ Len(visited) = ImgH * ImgW
              /\ \A p \in Pos(ImgH, ImgW) :
                    Cardinality({n \in 1 .. Len(visited) : visited[n] = p}) = 1

\* a finished serpentine run over at least two rows and two columns
ScanWitness ==
    /\ engine \in {"ed", "gray"} /\ pc = "done" /\ serpentine
    /\ ImgH >= 2 /\ ImgW >= 2
    /\ \E n \in 1 .. Len(visited) : visited[n] = <<1, ImgW - 1>> /\ n = ImgW + 1

\* C5: edge handling. After a pixel step every pixel's work value has grown
\* by exactly error*weight of the kernel entry that lands on it (nothing if
\* none does), whatever the number of entries that fell outside the image.
RECURSIVE ExpectedShareFrom(_, _)
ExpectedShareFrom(p, i) ==
    IF i > Len(kernel) THEN ZeroVec(input.c)
    ELSE VAdd(IF KernelTarget(i) = p
              THEN VShare(last.error, kernel[i].num, kernel[i].den)
              ELSE ZeroVec(input.c),
              ExpectedShareFrom(p, i + 1))
EdgeSharesDropped ==
    Diffusing => \A p \in Pos(ImgH, ImgW) : VSub(Work[p], Base[p]) = ExpectedShareFrom(p, 1)

\* a step with a non-zero error in a corner of the image: some kernel entries
\* land inside, others fall outside
EdgeWitness ==
    /\ Diffusing
    /\ last.error # ZeroVec(input.c)
    /\ \E i \in 1 .. Len(kernel) : OnImage(KernelTarget(i)) /\ Work[KernelTarget(i)] # Base[KernelTarget(i)]
    /\ \E i \in 1 .. Len(kernel) : ~OnImage(KernelTarget(i))

\* C6: nearest-colour tie-break. The index selected for a pixel attains the
\* minimum squared distance and no smaller index does.
LeastArgmin(idx, dist) ==
    /\ idx \in 1 .. Len(dist)
    /\ \A j \in 1 .. Len(dist) : dist[idx] <= dist[j]
    /\ \A j \in 1 .. idx - 1 : dist[j] > dist[idx]
StableArgmin ==
    /\ (engine \in {"ed", "ordered", "random"} /\ Stepped) =>
          LeastArgmin(last.idx, Distances(last.sel, palette))
    /\ (engine = "map" /\ pc = "done") =>
          \A p \in Pos(ImgH, ImgW) : LeastArgmin(last.idx[p], Distances(input.px[p], palette))

\* a selection where a later palette entry is exactly as near as the chosen one
TieWitness ==
    /\ Stepped /\ engine = "ed"
    /\ \E j \in last.idx + 1 .. Len(palette) :
          SumSq(VSub(palette[j], last.sel)) = SumSq(VSub(palette[last.idx], last.sel))

RECURSIVE NumeratorSum(_, _)
NumeratorSum(ker, i) == IF i > Len(ker) THEN 0 ELSE ker[i].num + NumeratorSum(ker, i + 1)
KernelNormalized ==
    (engine \in DiffusionEngines /\ pc # "start") =>
        /\ \A i \in 1 .. Len(kernel) : kernel[i].den = kernel[1].den
        /\ NumeratorSum(kernel, 1) = kernel[1].den

\* the untiled matrix entry under the last pixel
TileValue == kernel.rows[(last.y % Len(kernel.rows)) + 1][(last.x % Len(kernel.rows[1])) + 1]
\* C8: ordered dithering bias. The value handed to the nearest-colour search
\* is the pixel plus (T[y mod tileH, x mod tileW] - 0.5) / (paletteSize - 1),
\* kept within the sample range; the pixel itself is the caller's, carrying
\* no error from another pixel.
OrderedBiasPerStep ==
    (engine = "ordered" /\ Stepped /\ Len(palette) >= 2) =>
        /\ last.old = input.px[<<last.y, last.x>>]
        /\ last.sel = [c \in 1 .. input.c |->
                          Clip(last.old[c] + RoundDiv(Full * (2 * TileValue - kernel.den),
                                                      2 * kernel.den * (Len(palette) - 1)),
                               0, Full)]

\* C9: Bayer bijection. The matrix an ordered run loads for a Bayer name of
\* size n has n rows of n entries over the divisor n*n, holds every integer
\* 0 .. n*n-1 (so each exactly once), and every entry is below the divisor.
BayerSize ==
    CASE algorithm = "Bayer 2x2" -> 2
      [] algorithm = "Bayer 4x4" -> 4
      [] algorithm = "Bayer 8x8" -> 8
      [] OTHER -> 0
MatrixEntries(mat) ==
    { mat.rows[i][j] : i \in 1 .. Len(mat.rows), j \in 1 .. Len(mat.rows[1]) }
BayerBijection ==
    (engine = "ordered" /\ pc # "start" /\ algorithm \in BayerNames) =>
        /\ Len(kernel.rows) = BayerSize
        /\ \A i \in 1 .. Len(kernel.rows) : Len(kernel.rows[i]) = BayerSize
        /\ kernel.den = BayerSize * BayerSize
        /\ MatrixEntries(kernel) = 0 .. BayerSize * BayerSize - 1
        /\ \A t \in MatrixEntries(kernel) : 0 <= t /\ t < kernel.den

\* an ordered run in its loop with the 8x8 Bayer matrix loaded
BayerWitness ==
    /\ engine = "ordered" /\ pc = "loop" /\ algorithm = "Bayer 8x8"
    /\ Len(kernel.rows) = 8 /\ Stepped

\* C10: truncation/tiling asymmetry. For a preset or custom palette of
\* length L and a requested count c: c < L gives the first c entries, c > L
\* gives c entries, the original repeated cyclically.
SourcePalette ==
    IF IsCustomMode(params.palette_mode) THEN params.custom_palette
    ELSE PRESET_PALETTES(params.palette_mode)
FixedOrCustom ==
    \/ params.palette_mode \in PresetNames
    \/ IsCustomMode(params.palette_mode) /\ params.custom_palette # "None"
TruncateOrTile ==
    (engine = "generate_palette" /\ pc = "done" /\ FixedOrCustom
        /\ params.num_colors >= 2 /\ Len(SourcePalette) >= 1) =>
        LET L == Len(SourcePalette)
            c == params.num_colors
        IN /\ c < L => palette = SubSeq(SourcePalette, 1, c)
           /\ c > L => /\ Len(palette) = c
                       /\ \A i \in 1 .. c : palette[i] = SourcePalette[((i - 1) % L) + 1]

\* both renders of the toggle test have returned
BothRendered == engine = "ed" /\ pc = "done" /\ Len(runs) = 1
\* C4: serpentine toggle. Rendering a horizontal gradient of height >= 2 with
\* Floyd-Steinberg and a 2-colour palette, once with serpentine and once
\* without, gives two different outputs.
ToggleChangesOutput ==
    (BothRendered /\ ImgH >= 2) => heap[resultRef].px # heap[runs[1]].px

\* C4 as amended: with the black/white palette the two outputs differ for the
\* 16-column gradient (the rows of the regression test's image) at every
\* height from 2 up to MaxGradH.
ToggleChangesSixteenColumns ==
    (BothRendered /\ ImgH >= 2 /\ ImgW = 16) => heap[resultRef].px # heap[runs[1]].px

\* both renders of a 16-column gradient done, the outputs differing in row 1
ToggleWitness ==
    /\ BothRendered /\ ImgW = 16 /\ ImgH >= 2
    /\ \E p \in Pos(ImgH, ImgW) : heap[resultRef].px[p] # heap[runs[1]].px[p]

\* a finished palette build
PaletteBuilt == engine = "generate_palette" /\ pc = "done"

\* C11: palette size equals the request. For every palette mode and every
\* requested colour count c >= 2 the palette built has exactly c entries.
PaletteSizeEqualsRequest ==
    (PaletteBuilt /\ params.num_colors >= 2) => Len(palette) = params.num_colors

\* C12: no empty palette. Whatever the inputs (an empty custom palette under
\* the custom mode, a colour count below 2), the palette built is non-empty.
PaletteNeverEmpty == PaletteBuilt => Len(palette) >= 1

\* C13: invalid palette. A routine handed a palette of no colours ends in an
\* error for every image size, a zero-size image included: it returns no
\* image, and the error is not a division by the palette size.
InvalidPaletteIsError ==
    (engine \in {"ed", "ordered", "random"} /\ Len(palette) = 0) =>
        /\ pc # "done"
        /\ resultRef = 0
        /\ raised # "ZeroDivisionError"

\* exactly six hexadecimal digits after one optional leading '#'
StrictLiteral(t) ==
    LET body == IF Len(t) > 0 /\ t[1] = "#" THEN Tail(t) ELSE t
    IN Len(body) = 6 /\ \A i \in 1 .. 6 : IsHexDigit(body[i])
\* C15: strict hex colour literals. A parser returns a colour exactly for the
\* texts that are six hexadecimal digits after one optional '#'; every other
\* text ends in a validation error and yields no colour.
StrictHexLiteral ==
    (engine \in {"core_hex_to_rgb", "tool_hex_to_rgb"} /\ pc # "start") =>
        /\ (pc = "done") = StrictLiteral(params.value)
        /\ (pc = "error") => (raised = "ValueError" /\ palette = <<>>)

\* C14: a render whose algorithm name is in no catalog runs no adjustment,
\* palette, tone or dithering stage and renders nothing: it stays at its
\* start or has ended in an error.
ToolRender == engine = "dither" \/ (stages # <<>> /\ stages[1] = "apply_adjustments")
CoreRender == engine = "pipeline" \/ (stages # <<>> /\ stages[1] = "_apply_pixel_size")
UnknownAlgorithmIsError ==
    /\ (ToolRender /\ algorithm \notin ToolCatalog) =>
           (stages = <<>> /\ resultRef = 0 /\ pc \in {"start", "error"})
    /\ (CoreRender /\ algorithm \notin DITHER_ALGORITHMS) =>
           (stages = <<>> /\ resultRef = 0 /\ pc \in {"start", "error"})

\* C16: with every control at its neutral value the adjustment stage of the
\* tool and the colour, tone and noise stages of the pipeline hand on a
\* buffer equal to the image, and none of their operations is computed.
NeutralTone ==
    /\ params.pixel_size = 1 /\ params.preview_downsample = 1
    /\ params.red_scale = 100 /\ params.green_scale = 100 /\ params.blue_scale = 100
    /\ params.colour_mode = "RGB Balance" /\ params.palette_mode = "Disabled"
    /\ params.gamma = 100 /\ params.contrast = 100 /\ params.saturation = 100
    /\ params.hue_shift = 0 /\ params.vignette_strength = 0 /\ params.noise_level = 0
NeutralIsSkipped ==
    /\ (engine = "dither" /\ pc = "palette" /\ params.adjustments = NeutralAdjustments) =>
           /\ heap[workRef].px = input.px
           /\ stages = <<"apply_adjustments">>
    /\ (engine = "pipeline" /\ pc = "lookup" /\ NeutralTone) =>
           /\ heap[workRef].px = input.px
           /\ stages = << "_apply_pixel_size", "_apply_colour_controls",
                          "_apply_tone_controls", "_apply_noise" >>

\* C17: two consecutive Random renders of the same image and palette on the
\* same engine return identical output.
RandomReproducible ==
    (engine = "random" /\ pc = "done" /\ runs # <<>>) =>
        heap[resultRef].px = heap[runs[1]].px

\* C18: the Floyd-Steinberg render of the mid-grey square holds at least one
\* pure black and at least one pure white pixel.
MidGreyNotUniform ==
    (pc = "done" /\ resultRef # 0) =>
        LET out == heap[resultRef]
        IN /\ \E p \in Pos(out.h, out.w) : out.px[p] = <<0, 0, 0>>
           /\ \E p \in Pos(out.h, out.w) : out.px[p] = <<Full, Full, Full>>
MidGreyWitness ==
    /\ pc = "done" /\ resultRef # 0
    /\ algorithm = "Floyd-Steinberg" /\ input = MidGrey
    /\ Len(visited) = MidGreySide * MidGreySide

\* C19: once a newer request has been submitted, the processing of an
\* earlier preview request neither emits through processed nor writes the
\* preview cache.
StalePreviewDiscarded ==
    /\ (lastEmit.by # 0 /\ ~lastEmit.full) => lastEmit.by = lastEmit.newest
    /\ lastStore.by # 0 => lastStore.by = lastStore.newest

\* C20: every token enqueue hands out is greater than every token handed
\* out before it.
TokensIncrease ==
    \A i \in 1 .. Len(tokens) : \A j \in 1 .. Len(tokens) : i < j => tokens[i] < tokens[j]

\* C21: at every moment at most one worker is executing a full-resolution
\* render, and the workers executing a render are never more than the pool
\* holds.
Rendering == { w \in Workers : pool[w].pc = "render" }
BoundedInFlight ==
    /\ Cardinality({ w \in Rendering : pool[w].task.request.full_resolution }) <= 1
    /\ Cardinality(Rendering) <= PoolSize

\* C22: the registry DITHER_ALGORITHMS holds every required algorithm name:
\* the lookup DITHER_ALGORITHMS[request.algorithm] of a required name never
\* ends in KeyError.
REQUIRED_ALGORITHMS ==
    { "Floyd-Steinberg", "Jarvis-Judice-Ninke", "Stucki", "Atkinson", "Burkes",
      "Sierra (2-row)", "Sierra Lite (2-4A)", "Bayer 2x2", "Bayer 4x4", "Bayer 8x8",
      "Clustered Dot (ordered)", "Random" }
CatalogComplete ==
    (CoreRender /\ algorithm \in REQUIRED_ALGORITHMS) =>
        raised # "KeyError"

\* C23: no overflow or wrap on 8-bit conversion: at every point where a buffer
\* is converted to 8-bit integers (ensure_uint8 in the tool; the glow
\* highlight, the sharpen input, the edge-boost original and the final output
\* in the pipeline) every sample lies within 0..255.
ConversionsInRange ==
    \A i \in 1 .. Len(converted) : 0 <= converted[i].lo /\ converted[i].hi <= Full
\* a finished render with glow and sharpen of a source with white pixels: the
\* highlight and the glowed buffer both reach 255 where they are converted
GlowThenSharpen ==
    /\ pc = "rendered" /\ params.glow_radius > 0 /\ params.sharpen_amount > 0
    /\ \E i \in 1 .. Len(converted) : converted[i].at = "glow" /\ converted[i].hi = Full
    /\ \E i \in 1 .. Len(converted) : converted[i].at = "sharpen" /\ converted[i].hi = Full
    /\ \E i \in 1 .. Len(converted) : converted[i].at = "output"

\* C24: the accelerated and the pure error diffusion are functionally
\* identical: on the same image, with the same effective threshold and the same
\* kernel, the accelerated routine returns the buffer the pure routine returned.
AcceleratedEqualsPure ==
    (pc = "done" /\ engine = "numba" /\ runs # <<>>) =>
        heap[resultRef].px = heap[runs[1]].px

\* C25: residual propagation is exact. After a pixel step of error diffusion
\* every pixel's work value has grown by (old value - chosen value) * weight
\* of the kernel entry that lands on it, with no further gain factor.
RECURSIVE ResidualShareFrom(_, _)
ResidualShareFrom(p, i) ==
    IF i > Len(kernel) THEN ZeroVec(input.c)
    ELSE VAdd(IF KernelTarget(i) = p
              THEN VShare(VSub(last.old, last.new), kernel[i].num, kernel[i].den)
              ELSE ZeroVec(input.c),
              ResidualShareFrom(p, i + 1))
ResidualExact ==
    Diffusing => \A p \in Pos(ImgH, ImgW) : VSub(Work[p], Base[p]) = ResidualShareFrom(p, 1)

QuantizationTargets ==
    CASE engine = "ed" -> { palette[i] : i \in 1 .. Len(palette) }
      [] engine = "gray" -> { <<0>>, <<Full>> }
      [] OTHER -> [1 .. input.c -> {0, Full}]
OutputQuantized ==
    (engine \in DiffusionEngines /\ pc = "done" /\ resultRef # 0) =>
        \A p \in Pos(ImgH, ImgW) : heap[resultRef].px[p] \in QuantizationTargets
\* a returned in-place render whose last pixel had been moved by diffused
\* error before it was quantized
QuantizedAfterDiffusion ==
    /\ engine \in InPlaceEngines /\ pc = "done" /\ resultRef # 0
    /\ last.y >= 0 /\ last.old # input.px[<<last.y, last.x>>]
    /\ heap[resultRef].px[<<last.y, last.x>>] = last.new
    /\ \E c \in 1 .. input.c : last.old[c] \notin {0, Full}

\* C28: no result from a replaced source image. Once load_image has installed
\* a new source image, no image computed from the previous source is emitted
\* through processed, and none is left in the preview or the full-resolution
\* cache.
NoReplacedSource ==
    /\ (lastEmit.result # NoImage /\ lastEmit.loaded # 0) =>
           lastEmit.result.source = lastEmit.loaded
    /\ (Loaded # 0 /\ previewCache # NoImage) => previewCache.source = Loaded
    /\ (Loaded # 0 /\ fullResCache # NoImage) => fullResCache.source = Loaded

\* C29: the latest preview is eventually shown. If an image is loaded and
\* enqueue stops being called, its last call having asked for a preview, then
\* with the workers scheduled fairly a render of the request of that last call
\* is emitted through processed after the call.
LatestPreviewShown ==
    \A n \in 1 .. MaxEnqueues :
        <>[](Len(asked) = n /\ ~asked[n].full_resolution /\ ui = "idle"
             /\ latestRequest = asked[n])
        => <>(lastEmit.newest = n /\ ~lastEmit.full /\ lastEmit.result.request = asked[n])

\* C30: the standalone tool shows only the newest task. A finished or failed
\* task whose id differs from active_task_id leaves last_result and the
\* display as they were, and last_result is never a result of a task started
\* before the task started last when it was stored.
OnlyNewestShown ==
    /\ (delivered.task_id # 0 /\ delivered.task_id # delivered.active) =>
           (last_result = delivered.result /\ dithered = delivered.dithered)
    /\ last_result.task_id = last_result.newest
    /\ dithered = last_result.task_id
\* an older task finishing after the newer task's result is on display
LateFinish ==
    /\ delivered.slot = "_dither_finished"
    /\ delivered.task_id # 0 /\ delivered.task_id < delivered.active
    /\ last_result.task_id = delivered.active
    /\ dithered = delivered.active

====
